---- MODULE Spec2Model ----
(***************************************************************************)
(* Model of the node-configuration resolution engine of the SR-IOV network *)
(* operator (api/v1 helper): selector matching, VF range arithmetic, the   *)
(* policy merge (Apply / mergeConfigs) and the software bridge list        *)
(* (ApplyBridgeConfig).                                                    *)
(*                                                                         *)
(* Go strings that the code splits, parses, formats or orders are modelled *)
(* as sequences of one-character strings ("0-3" is <<"0","-","3">>), so    *)
(* that formatting and parsing are computed and not assumed.  Strings that *)
(* the code only compares for equality are TLA+ strings.                   *)
(***************************************************************************)
EXTENDS Integers, Sequences, FiniteSets, TLC

(***************************************************************************)
(* Go library string functions, as far as the code uses them.              *)
(***************************************************************************)

\* The characters of the model's strings, in ASCII order.
Alphabet ==
    << "#", "+", "-", ".", "0", "1", "2", "3", "4", "5", "6", "7", "8", "9",
       ":", "_", "b", "e", "h", "p", "r", "t", "x" >>

\* The rank of a character in byte order.
Ord(c) == CHOOSE i \in 1..Len(Alphabet) : Alphabet[i] = c

Digits == <<"0", "1", "2", "3", "4", "5", "6", "7", "8", "9">>

IsDigit(c) == \E i \in 1..Len(Digits) : Digits[i] = c

DigitVal(c) == (CHOOSE i \in 1..Len(Digits) : Digits[i] = c) - 1

\* strings.Contains(s, c) for a one-character c.
Contains(s, c) == \E i \in 1..Len(s) : s[i] = c

\* strings.Split(s, sep) for a one-character sep: always at least one field.
RECURSIVE Split(_, _)
Split(s, sep) ==
    IF ~Contains(s, sep) THEN << s >>
    ELSE LET k == CHOOSE i \in 1..Len(s) :
                      s[i] = sep /\ \A j \in 1..(i - 1) : s[j] # sep
         IN  << SubSeq(s, 1, k - 1) >> \o Split(SubSeq(s, k + 1, Len(s)), sep)

\* strings.ReplaceAll(s, old, new) for one-character old and new.
ReplaceAll(s, old, new) == [i \in 1..Len(s) |-> IF s[i] = old THEN new ELSE s[i]]

\* strings.Compare(a, b): -1, 0 or 1 in byte-wise lexicographic order.
RECURSIVE Compare(_, _)
Compare(a, b) ==
    IF a = <<>> /\ b = <<>> THEN 0
    ELSE IF a = <<>> THEN -1
    ELSE IF b = <<>> THEN 1
    ELSE IF Ord(Head(a)) < Ord(Head(b)) THEN -1
    ELSE IF Ord(Head(a)) > Ord(Head(b)) THEN 1
    ELSE Compare(Tail(a), Tail(b))

\* The value of a sequence of digits.
RECURSIVE DigitsVal(_)
DigitsVal(s) ==
    IF s = <<>> THEN 0
    ELSE 10 * DigitsVal(SubSeq(s, 1, Len(s) - 1)) + DigitVal(s[Len(s)])

\* The digits of strconv.Atoi after the optional sign of s.
AtoiDigits(s, body) ==
    IF body = <<>> \/ \E i \in 1..Len(body) : ~IsDigit(body[i])
    THEN [val |-> 0, err |-> TRUE]
    ELSE [val |-> IF s[1] = "-" THEN 0 - DigitsVal(body) ELSE DigitsVal(body),
          err |-> FALSE]

\* strconv.Atoi: an optional sign and at least one digit, or a syntax error
\* (and the value 0).
Atoi(s) == AtoiDigits(s, IF s # <<>> /\ s[1] \in {"+", "-"} THEN Tail(s) ELSE s)

\* strconv.Itoa.
RECURSIVE NatToStr(_)
NatToStr(n) ==
    IF n < 10 THEN << Digits[n + 1] >>
    ELSE NatToStr(n \div 10) \o << Digits[(n % 10) + 1] >>

Itoa(n) == IF n < 0 THEN << "-" >> \o NatToStr(0 - n) ELSE NatToStr(n)

(***************************************************************************)
(* Range arithmetic.                                                       *)
(***************************************************************************)

invalidVfIndex == -1

\* parseRange after the second conversion b, with the start rngSt.
parseRangeEnd(rngSt, b) ==
    IF b.err THEN [rngSt |-> rngSt, rngEnd |-> 0, err |-> TRUE, panic |-> FALSE]
    ELSE [rngSt |-> rngSt, rngEnd |-> b.val, err |-> FALSE, panic |-> FALSE]

\* parseRange after the first conversion a, on the fields rng.
parseRangeStart(rng, a) ==
    IF a.err THEN [rngSt |-> 0, rngEnd |-> 0, err |-> TRUE, panic |-> FALSE]
    ELSE IF Len(rng) < 2
         THEN [rngSt |-> a.val, rngEnd |-> 0, err |-> FALSE, panic |-> TRUE]
    ELSE parseRangeEnd(a.val, Atoi(rng[2]))

\* parseRange on the fields rng of the split string.
parseRangeFields(rng) == parseRangeStart(rng, Atoi(rng[1]))

\* parseRange: the two bounds of "start-end".  A string without '-' makes
\* rng[1] an index out of range: the call panics.
parseRange(r) == parseRangeFields(Split(r, "-"))

\* The test of IndexInRange on the parsed range p.
IndexInBounds(i, p) ==
    IF p.err \/ p.panic THEN FALSE ELSE i <= p.rngEnd /\ i >= p.rngSt

\* IndexInRange(i, r): a range that does not parse contains nothing.
IndexInRange(i, r) == IndexInBounds(i, parseRange(r))

\* A faulty overlap test: only the bounds of the second range are looked up,
\* whichever range starts first.
OverlapOfParsedNoOrder(p1, p2) ==
    IF p1.panic THEN "panic"
    ELSE IF p1.err THEN "false"
    ELSE IF p2.panic THEN "panic"
    ELSE IF p2.err THEN "false"
    ELSE IF IndexInBounds(p2.rngSt, p1) \/ IndexInBounds(p2.rngEnd, p1)
         THEN "true" ELSE "false"

\* isVFRangeOverlapping on the parsed ranges p1 (of gr) and p2 (of group);
\* IndexInRange parses the same strings again.
OverlapOfParsed(p1, p2) ==
    IF p1.panic THEN "panic"
    ELSE IF p1.err THEN "false"
    ELSE IF p2.panic THEN "panic"
    ELSE IF p2.err THEN "false"
    ELSE IF p1.rngSt < p2.rngSt
         THEN IF IndexInBounds(p2.rngSt, p1) \/ IndexInBounds(p2.rngEnd, p1)
              THEN "true" ELSE "false"
    ELSE IF IndexInBounds(p1.rngSt, p2) \/ IndexInBounds(p1.rngEnd, p2)
         THEN "true" ELSE "false"

\* VfGroup.isVFRangeOverlapping, on the groups' range strings: "true",
\* "false", or "panic" when a range reached by the code has no '-'.
OverlapOutcome(r1, r2) == OverlapOfParsed(parseRange(r1), parseRange(r2))

\* A faulty overlap test: only the start of the other range is looked up.
isVFRangeOverlappingStartOnly(gr, group) ==
    IndexInRange(parseRange(group.VfRange).rngSt, gr.VfRange)

isVFRangeOverlapping(gr, group) == OverlapOutcome(gr.VfRange, group.VfRange) = "true"

\* The two results of SplitDeviceFromRange from the fields around '#'.
DeviceAndRange(fields) == [device |-> fields[1], range |-> fields[2]]

\* SplitDeviceFromRange: the device name and the range after '#'.
SplitDeviceFromRange(device) ==
    IF Contains(device, "#")
    THEN DeviceAndRange(Split(device, "#"))
    ELSE [device |-> device, range |-> <<>>]

\* ParseVfRange with the parsed range p of the device rootDeviceName.
VfRangeOfDevice(rootDeviceName, p) ==
    [rootDeviceName |-> rootDeviceName, rngSt |-> p.rngSt, rngEnd |-> p.rngEnd,
     err |-> p.err, panic |-> p.panic]

\* ParseVfRange after SplitDeviceFromRange returned sp.
ParseVfRangeSplit(device, sp) ==
    IF sp.range # <<>>
    THEN VfRangeOfDevice(sp.device, parseRange(sp.range))
    ELSE [rootDeviceName |-> device, rngSt |-> invalidVfIndex,
          rngEnd |-> invalidVfIndex, err |-> FALSE, panic |-> FALSE]

\* ParseVfRange: a device name with an optional "#start-end".
ParseVfRange(device) == ParseVfRangeSplit(device, SplitDeviceFromRange(device))

(***************************************************************************)
(* Selector matching.                                                      *)
(***************************************************************************)

StringInArray(val, array) == \E i \in 1..Len(array) : array[i] = val

\* What the expression ^\s*([^\s]+)\s*:\s*([^\s]+) captures first in a
\* one-line string without white space: the text before and after the last
\* ':' that has text on both sides.  matched is FALSE when there is none.
NetFilterParse(s) ==
    LET cand == {k \in 2..(Len(s) - 1) : s[k] = ":"}
    IN  IF cand = {} THEN [matched |-> FALSE, key |-> <<>>, value |-> <<>>]
        ELSE LET k == CHOOSE x \in cand : \A y \in cand : y <= x
             IN  [matched |-> TRUE, key |-> SubSeq(s, 1, k - 1),
                  value |-> SubSeq(s, k + 1, Len(s))]

NetFilterMatch(netFilter, netValue) ==
    LET f == NetFilterParse(netFilter)
        v == NetFilterParse(netValue)
    IN  IF ~f.matched THEN FALSE
        ELSE IF ~v.matched THEN FALSE
        ELSE f.key = v.key /\ f.value = v.value

\* A faulty IsEmpty: no selector counts as empty.
IsEmptyNever(selector) == FALSE

\* SriovNetworkNicSelector.IsEmpty.
IsEmpty(selector) ==
    /\ selector.Vendor = ""
    /\ selector.DeviceID = ""
    /\ Len(selector.RootDevices) = 0
    /\ Len(selector.PfNames) = 0
    /\ Len(selector.NetFilter) = 0

\* The selector's interface names without their "#range" suffix.
StrippedPfNames(selector) ==
    [i \in 1..Len(selector.PfNames) |->
        IF Contains(selector.PfNames[i], "#")
        THEN Split(selector.PfNames[i], "#")[1]
        ELSE selector.PfNames[i]]

\* A faulty Selected: the vendor is compared even when the selector names none.
SelectedVendorAlways(selector, iface) ==
    /\ selector.Vendor = iface.Vendor
    /\ (selector.DeviceID = "" \/ selector.DeviceID = iface.DeviceID)
    /\ (Len(selector.RootDevices) = 0
          \/ StringInArray(iface.PciAddress, selector.RootDevices))
    /\ (Len(selector.PfNames) = 0
          \/ StringInArray(iface.Name, StrippedPfNames(selector)))
    /\ (selector.NetFilter = <<>>
          \/ NetFilterMatch(selector.NetFilter, iface.NetFilter))

\* SriovNetworkNicSelector.Selected.
Selected(selector, iface) ==
    IF selector.Vendor # "" /\ selector.Vendor # iface.Vendor THEN FALSE
    ELSE IF selector.DeviceID # "" /\ selector.DeviceID # iface.DeviceID THEN FALSE
    ELSE IF Len(selector.RootDevices) > 0
            /\ ~StringInArray(iface.PciAddress, selector.RootDevices) THEN FALSE
    ELSE IF Len(selector.PfNames) > 0
            /\ ~StringInArray(iface.Name, StrippedPfNames(selector)) THEN FALSE
    ELSE IF selector.NetFilter # <<>>
            /\ ~NetFilterMatch(selector.NetFilter, iface.NetFilter) THEN FALSE
    ELSE TRUE

(***************************************************************************)
(* Policy merge.                                                           *)
(***************************************************************************)

\* A faulty Less: the lower priority integer sorts first.
LessAscending(a, b) ==
    IF a.Priority # b.Priority THEN a.Priority < b.Priority
    ELSE Compare(a.Name, b.Name) < 0

\* ByPriority.Less on two policies.
Less(a, b) ==
    IF a.Priority # b.Priority THEN a.Priority > b.Priority
    ELSE Compare(a.Name, b.Name) < 0

\* What ParseVfRange returns for each of the selector's interface names.
ParsedPfNames(p) ==
    [k \in 1..Len(p.NicSelector.PfNames) |-> ParseVfRange(p.NicSelector.PfNames[k])]

\* The scan of the selector's interface names in generatePfNameVfGroup, from
\* entry k on, parsed[k] being what ParseVfRange returns for entry k: the
\* range found, or an error or a panic of ParseVfRange.
RECURSIVE PfNameScan(_, _, _, _)
PfNameScan(p, iface, parsed, k) ==
    IF k > Len(parsed)
    THEN [found |-> FALSE, rngStart |-> 0, rngEnd |-> 0, err |-> "nil"]
    ELSE IF parsed[k].panic
         THEN [found |-> FALSE, rngStart |-> 0, rngEnd |-> 0, err |-> "panic"]
    ELSE IF parsed[k].err
         THEN [found |-> FALSE, rngStart |-> 0, rngEnd |-> 0, err |-> "error"]
    ELSE IF parsed[k].rootDeviceName = iface.Name
         THEN IF parsed[k].rngSt = invalidVfIndex /\ parsed[k].rngEnd = invalidVfIndex
              THEN [found |-> TRUE, rngStart |-> 0, rngEnd |-> p.NumVfs - 1,
                    err |-> "nil"]
              ELSE [found |-> TRUE, rngStart |-> parsed[k].rngSt,
                    rngEnd |-> parsed[k].rngEnd, err |-> "nil"]
    ELSE PfNameScan(p, iface, parsed, k + 1)

\* The group generatePfNameVfGroup builds after the scan s of the names.
VfGroupOfScan(p, s) ==
    [err |-> s.err,
     group |-> [ResourceName |-> p.ResourceName,
                DeviceType |-> p.DeviceType,
                VfRange |-> Itoa(IF s.found THEN s.rngStart ELSE 0)
                            \o << "-" >>
                            \o Itoa(IF s.found THEN s.rngEnd ELSE p.NumVfs - 1),
                PolicyName |-> p.Name,
                Mtu |-> p.Mtu,
                IsRdma |-> p.IsRdma,
                VdpaType |-> p.VdpaType]]

\* SriovNetworkNodePolicy.generatePfNameVfGroup.
generatePfNameVfGroup(p, iface) ==
    VfGroupOfScan(p, PfNameScan(p, iface, ParsedPfNames(p), 1))

\* A faulty skip test: every existing group is carried forward.
MergeSkipsNever(gr, incoming) == FALSE

\* A faulty skip test: only the resource name is compared.
MergeSkipsNameOnly(gr, incoming) == gr.ResourceName = incoming.ResourceName

\* Whether mergeConfigs skips the existing group gr for the incoming group.
MergeSkips(gr, incoming) ==
    gr.ResourceName = incoming.ResourceName \/ isVFRangeOverlapping(gr, incoming)

\* A faulty mergeConfigs: the scalars are never blended.
mergeConfigsNoBlend(iface, input, equalPriority) ==
    [input EXCEPT !.VfGroups =
        input.VfGroups \o SelectSeq(iface.VfGroups,
                                    LAMBDA gr : ~MergeSkips(gr, input.VfGroups[1]))]

\* A faulty end of mergeConfigs: the scalars are blended in every case.
mergeCarriedAlwaysBlend(iface, input, equalPriority, carried) ==
    [input EXCEPT !.VfGroups = input.VfGroups \o carried,
                  !.Mtu = IF input.Mtu < iface.Mtu THEN iface.Mtu ELSE input.Mtu,
                  !.NumVfs = IF input.NumVfs < iface.NumVfs
                             THEN iface.NumVfs ELSE input.NumVfs]

\* mergeConfigs after its loop carried the groups carried forward (m is set
\* when there is one).
mergeCarried(iface, input, equalPriority, carried) ==
    IF ~equalPriority /\ ~(Len(carried) > 0)
    THEN [input EXCEPT !.VfGroups = input.VfGroups \o carried]
    ELSE [input EXCEPT !.VfGroups = input.VfGroups \o carried,
                       !.Mtu = IF input.Mtu < iface.Mtu THEN iface.Mtu
                               ELSE input.Mtu,
                       !.NumVfs = IF input.NumVfs < iface.NumVfs
                                  THEN iface.NumVfs ELSE input.NumVfs]

\* Interface.mergeConfigs: the value left in *input.
mergeConfigs(iface, input, equalPriority) ==
    mergeCarried(iface, input, equalPriority,
                 SelectSeq(iface.VfGroups,
                           LAMBDA gr : ~MergeSkips(gr, input.VfGroups[1])))

\* A faulty search of the desired list: the first entry is never looked at.
FindByPciSkipFirst(ifaces, pci) ==
    IF \E i \in 2..Len(ifaces) : ifaces[i].PciAddress = pci
    THEN CHOOSE i \in 2..Len(ifaces) :
             /\ ifaces[i].PciAddress = pci
             /\ \A j \in 2..(i - 1) : ifaces[j].PciAddress # pci
    ELSE 0

\* The first entry of the desired list with this PCI address, 0 if none.
FindByPci(ifaces, pci) ==
    IF \E i \in 1..Len(ifaces) : ifaces[i].PciAddress = pci
    THEN CHOOSE i \in 1..Len(ifaces) :
             /\ ifaces[i].PciAddress = pci
             /\ \A j \in 1..(i - 1) : ifaces[j].PciAddress # pci
    ELSE 0

\* The Interface value Apply builds from the policy for an observed interface.
ResultOf(p, iface, groups) ==
    [PciAddress |-> iface.PciAddress,
     Mtu |-> p.Mtu,
     Name |-> iface.Name,
     LinkType |-> p.LinkType,
     EswitchMode |-> p.EswitchMode,
     NumVfs |-> p.NumVfs,
     ExternallyManaged |-> p.ExternallyManaged,
     VfGroups |-> groups]

\* The search of Apply in the desired list: merge result into the entry i
\* with its PCI address, or append it when there is none (i = 0).
MergeOrAppend(desired, i, result, equalPriority) ==
    IF i # 0
    THEN [desired EXCEPT ![i] = mergeConfigs(desired[i], result, equalPriority)]
    ELSE Append(desired, result)

\* A faulty search of Apply: an interface without an entry gets none.
ApplyGroupNoAppend(p, iface, desired, equalPriority, g) ==
    IF g.err # "nil" \/ FindByPci(desired, iface.PciAddress) = 0
    THEN [ifaces |-> desired, err |-> g.err]
    ELSE [ifaces |-> MergeOrAppend(desired, FindByPci(desired, iface.PciAddress),
                                   ResultOf(p, iface, << g.group >>),
                                   equalPriority),
          err |-> "nil"]

\* Apply for one selected observed interface of a policy with NumVfs > 0,
\* after generatePfNameVfGroup returned g.
ApplyGroup(p, iface, desired, equalPriority, g) ==
    IF g.err # "nil" THEN [ifaces |-> desired, err |-> g.err]
    ELSE [ifaces |-> MergeOrAppend(desired, FindByPci(desired, iface.PciAddress),
                                   ResultOf(p, iface, << g.group >>),
                                   equalPriority),
          err |-> "nil"]

\* What Apply does for one selected observed interface.
ApplyOne(p, iface, desired, equalPriority) ==
    IF p.NumVfs > 0
    THEN ApplyGroup(p, iface, desired, equalPriority,
                    generatePfNameVfGroup(p, iface))
    ELSE [ifaces |-> desired, err |-> "nil"]

\* The loop of Apply over the observed interfaces, from entry k on; acc is
\* the desired list so far and the error that ended the loop, if any.
RECURSIVE ApplyLoop(_, _, _, _, _)
ApplyLoop(p, observed, k, acc, equalPriority) ==
    IF k > Len(observed) \/ acc.err # "nil" THEN acc
    ELSE IF Selected(p.NicSelector, observed[k])
         THEN ApplyLoop(p, observed, k + 1,
                        ApplyOne(p, observed[k], acc.ifaces, equalPriority),
                        equalPriority)
    ELSE ApplyLoop(p, observed, k + 1, acc, equalPriority)

\* SriovNetworkNodePolicy.Apply: the desired interface list it leaves and
\* what it returns ("nil", "error", or "panic").
Apply(p, observed, desired, equalPriority) ==
    IF IsEmpty(p.NicSelector) THEN [ifaces |-> desired, err |-> "nil"]
    ELSE ApplyLoop(p, observed, 1, [ifaces |-> desired, err |-> "nil"],
                   equalPriority)

(***************************************************************************)
(* Bridge reconciler.                                                      *)
(***************************************************************************)

\* strings.ToLower on the link types of the model.
ToLower(s) ==
    CASE s = "ETH" -> "eth"
      [] s = "Eth" -> "eth"
      [] s = "IB" -> "ib"
      [] OTHER -> s

\* strings.EqualFold.
EqualFold(a, b) == ToLower(a) = ToLower(b)

LinkTypeETH == "ETH"

ESwithModeSwitchDev == "switchdev"

\* Bridge.IsEmpty: the policy names no OVS bridge.
BridgeIsEmpty(bridge) == ~bridge.hasOVS

\* GenerateBridgeName: "br-" and the PCI address with ':' replaced by '_'.
GenerateBridgeName(iface) ==
    << "b", "r", "-" >> \o ReplaceAll(iface.PciAddress, ":", "_")

\* The loop of slices.BinarySearchFunc over x[i..j) (0-based), comparing names.
RECURSIVE BinarySearchLoop(_, _, _, _)
BinarySearchLoop(x, name, i, j) ==
    IF i < j
    THEN LET h == (i + j) \div 2
         IN  IF Compare(x[h + 1].Name, name) < 0
             THEN BinarySearchLoop(x, name, h + 1, j)
             ELSE BinarySearchLoop(x, name, i, h)
    ELSE i

\* A faulty search result: the name is never reported as found.
FoundAtNever(x, name, pos) == [pos |-> pos, exist |-> FALSE]

\* The results of slices.BinarySearchFunc once its loop ended at pos.
FoundAt(x, name, pos) ==
    [pos |-> pos, exist |-> pos < Len(x) /\ Compare(x[pos + 1].Name, name) = 0]

\* slices.BinarySearchFunc by bridge name: the 0-based position and whether
\* the name is there.
BinarySearchFunc(x, name) == FoundAt(x, name, BinarySearchLoop(x, name, 0, Len(x)))

\* Another faulty Insert: the value goes to the front of the slice.
InsertFirst(x, pos, v) == << v >> \o x

\* A faulty Insert: the value goes to the end of the slice.
InsertLast(x, pos, v) == Append(x, v)

\* slices.Insert(x, pos, v) with a 0-based pos.
Insert(x, pos, v) == SubSeq(x, 1, pos) \o << v >> \o SubSeq(x, pos + 1, Len(x))

\* The bridge ApplyBridgeConfig builds for one selected interface.
MakeOvsBridge(p, iface) ==
    [Name |-> GenerateBridgeName(iface),
     Bridge |-> p.Bridge.OVS.Bridge,
     Uplinks |-> << [PciAddress |-> iface.PciAddress,
                     Name |-> iface.Name,
                     Interface |->
                        IF p.Mtu > 0
                        THEN [p.Bridge.OVS.Uplink.Interface EXCEPT
                                 !.MTURequest = [isNil |-> FALSE, val |-> p.Mtu]]
                        ELSE p.Bridge.OVS.Uplink.Interface] >>]

\* Whether a bridge has an uplink with this PCI address.
HasUplink(br, pci) == \E u \in 1..Len(br.Uplinks) : br.Uplinks[u].PciAddress = pci

\* The bridge list after the search f for the name of ovsBridge: the bridge
\* replaces the one of its name or is inserted at the position found.
PutBridge(bridges, ovsBridge, f) ==
    IF f.exist
    THEN [bridges EXCEPT !.list[f.pos + 1] = ovsBridge]
    ELSE [isNil |-> FALSE, list |-> Insert(bridges.list, f.pos, ovsBridge)]

\* A faulty step: a list emptied by the deletion stays an empty list.
BridgeOneKeepEmpty(p, iface, bridges) ==
    IF ~p.Bridge.hasOVS
    THEN [isNil |-> bridges.isNil,
          list |-> SelectSeq(bridges.list,
                             LAMBDA br : ~HasUplink(br, iface.PciAddress))]
    ELSE PutBridge(bridges, MakeOvsBridge(p, iface),
                   BinarySearchFunc(bridges.list, GenerateBridgeName(iface)))

\* What ApplyBridgeConfig does for one selected observed interface.  The
\* bridge list is [isNil, list]: a Go slice is nil or holds its elements.
BridgeOne(p, iface, bridges) ==
    IF ~p.Bridge.hasOVS
    THEN LET kept == SelectSeq(bridges.list,
                               LAMBDA br : ~HasUplink(br, iface.PciAddress))
         IN  IF Len(kept) = 0 THEN [isNil |-> TRUE, list |-> <<>>]
             ELSE [isNil |-> FALSE, list |-> kept]
    ELSE PutBridge(bridges, MakeOvsBridge(p, iface),
                   BinarySearchFunc(bridges.list, GenerateBridgeName(iface)))

\* The loop of ApplyBridgeConfig over the observed interfaces, from entry k on.
RECURSIVE BridgeLoop(_, _, _, _)
BridgeLoop(p, observed, k, bridges) ==
    IF k > Len(observed) THEN bridges
    ELSE IF Selected(p.NicSelector, observed[k])
         THEN BridgeLoop(p, observed, k + 1, BridgeOne(p, observed[k], bridges))
    ELSE BridgeLoop(p, observed, k + 1, bridges)

\* Faulty policy checks: only the eswitch mode is looked at.
BridgeSanityModeOnly(p) ==
    IF ~BridgeIsEmpty(p.Bridge) /\ p.EswitchMode # ESwithModeSwitchDev
    THEN "error" ELSE "nil"

\* The policy checks of ApplyBridgeConfig: "nil" or the error.
BridgeSanity(p) ==
    IF ~BridgeIsEmpty(p.Bridge)
    THEN IF p.EswitchMode # ESwithModeSwitchDev THEN "error"
         ELSE IF p.LinkType # "" /\ ~EqualFold(p.LinkType, LinkTypeETH) THEN "error"
         ELSE IF p.ExternallyManaged THEN "error"
         ELSE "nil"
    ELSE "nil"

\* SriovNetworkNodePolicy.ApplyBridgeConfig: the bridge list it leaves and
\* what it returns.
ApplyBridgeConfig(p, observed, bridges) ==
    IF IsEmpty(p.NicSelector) THEN [bridges |-> bridges, err |-> "nil"]
    ELSE IF BridgeSanity(p) # "nil" THEN [bridges |-> bridges, err |-> "error"]
    ELSE [bridges |-> BridgeLoop(p, observed, 1, bridges), err |-> "nil"]

(***************************************************************************)
(* The node, its observed interfaces and the administrator's policies.     *)
(***************************************************************************)

\* The largest VF count a policy of the model asks for.
MaxVfs == 4

Pci0 == << "0", "3", ":", "0", "0", ".", "0" >>
Pci1 == << "0", "3", ":", "0", "0", ".", "1" >>
Pci2 == << "0", "4", ":", "0", "0", ".", "0" >>

Eth0 == << "e", "t", "h", "0" >>
Eth1 == << "e", "t", "h", "1" >>
Eth2 == << "e", "t", "h", "2" >>

\* Observed interfaces (InterfaceExt), as far as Apply reads them.
If0 == [PciAddress |-> Pci0, Name |-> Eth0, Vendor |-> "15b3", DeviceID |-> "1017",
        NetFilter |-> << "x", ":", "1" >>]
If1 == [PciAddress |-> Pci1, Name |-> Eth1, Vendor |-> "15b3", DeviceID |-> "1017",
        NetFilter |-> << "x", ":", "2" >>]
If2 == [PciAddress |-> Pci2, Name |-> Eth2, Vendor |-> "8086", DeviceID |-> "158b",
        NetFilter |-> <<>>]
\* A second report of the first PCI address, under another name.
If0again == [If0 EXCEPT !.Name = Eth1]

\* The observed interface list of the node: two ports, the first reported twice.
NodeStatus == << If0, If1, If0again >>

NoSelector == [Vendor |-> "", DeviceID |-> "", RootDevices |-> <<>>,
               PfNames |-> <<>>, NetFilter |-> <<>>]

Named(pfNames) == [NoSelector EXCEPT !.PfNames = pfNames]

ByVendor == [NoSelector EXCEPT !.Vendor = "15b3"]

\* The NIC selectors of the policies applied to the node: none, by vendor
\* (every port), the first port's VFs 0-1 and 2-3, two port names of which
\* the second has a range that does not parse, and a range without '-'.
Selectors ==
    { NoSelector,
      ByVendor,
      Named(<< Eth0 \o << "#", "0", "-", "1" >> >>),
      Named(<< Eth0 \o << "#", "2", "-", "3" >> >>),
      Named(<< Eth0, Eth1 \o << "#", "x", "-", "1" >> >>),
      Named(<< Eth1 \o << "#", "5" >> >>) }

NoMtuRequest == [isNil |-> TRUE, val |-> 0]

NoBridge == [hasOVS |-> FALSE,
             OVS |-> [Bridge |-> [DatapathType |-> ""],
                      Uplink |-> [Interface |-> [Type |-> "",
                                                  MTURequest |-> NoMtuRequest]]]]

OvsBridge == [hasOVS |-> TRUE,
              OVS |-> [Bridge |-> [DatapathType |-> "netdev"],
                       Uplink |-> [Interface |-> [Type |-> "dpdk",
                                                   MTURequest |-> NoMtuRequest]]]]

OvsBridgeSystem == [OvsBridge EXCEPT !.OVS.Bridge.DatapathType = "system"]

P1 == << "p", "1" >>
P2 == << "p", "2" >>
P3 == << "p", "3" >>

\* What a policy gives its VF group besides the range: the kinds of policy.
ProfileA == [Name |-> P1, ResourceName |-> "resA", DeviceType |-> "netdevice",
             IsRdma |-> FALSE, VdpaType |-> ""]
ProfileB == [Name |-> P2, ResourceName |-> "resB", DeviceType |-> "vfio-pci",
             IsRdma |-> TRUE, VdpaType |-> "vhost"]
\* A third policy that names the first one's resource.
ProfileA3 == [ProfileA EXCEPT !.Name = P3]

Policy(prof, priority, selector, numVfs, mtu, eswitchMode, linkType, ext, bridge) ==
    [Name |-> prof.Name,
     Priority |-> priority,
     NicSelector |-> selector,
     ResourceName |-> prof.ResourceName,
     NumVfs |-> numVfs,
     Mtu |-> mtu,
     DeviceType |-> prof.DeviceType,
     IsRdma |-> prof.IsRdma,
     VdpaType |-> prof.VdpaType,
     LinkType |-> linkType,
     EswitchMode |-> eswitchMode,
     ExternallyManaged |-> ext,
     Bridge |-> bridge]

\* The policies Apply is called with: each kind of policy with each selector,
\* asking for VFs, and one that asks for none.
VfPolicies ==
    { Policy(prof, 99, sel, nm[1], nm[2], "", "", FALSE, NoBridge) :
        prof \in {ProfileA, ProfileB}, sel \in Selectors,
        nm \in { << MaxVfs - 1, 9000 >>, << MaxVfs, 1500 >> } }
    \cup { Policy(ProfileA, 99, ByVendor, 0, 1500, "", "", FALSE, NoBridge) }

\* The policies ApplyBridgeConfig is called with on this node.
NodeBridgePolicies ==
    { Policy(ProfileA, 99, sel, 0, 0, esw, "", FALSE, br) :
        sel \in {NoSelector, ByVendor},
        esw \in {"", ESwithModeSwitchDev},
        br \in {NoBridge, OvsBridge} }

(***************************************************************************)
(* The state machine: one node state and the calls made on it.             *)
(***************************************************************************)

VARIABLES
    statusIfaces,   \* state.Status.Interfaces: the observed interfaces
    specIfaces,     \* state.Spec.Interfaces: the desired interfaces
    specBridges,    \* state.Spec.Bridges.OVS: the desired bridges
    pass,           \* a reconcile pass: the sorted policies to apply and applied
    call,           \* a call of a pure function: its arguments and its result
    gate,           \* a featureGate: its maps and its lock
    threads         \* the goroutines that call the feature gate

vars == << statusIfaces, specIfaces, specBridges, pass, call, gate, threads >>

NilBridges == [isNil |-> TRUE, list |-> <<>>]

NoPass == [todo |-> <<>>, applied |-> <<>>, failed |-> FALSE]

NoCall == [fn |-> "none"]

\* No feature gate and no goroutine on it.
NoGate == [made |-> FALSE]

NoThreads == << >>

\* The desired interface lists the node starts with: none, or the entry an
\* earlier pass made for the second port.
InitialDesired ==
    { <<>>,
      Apply(Policy(ProfileB, 99, ByVendor, MaxVfs, 1500, "", "", FALSE, NoBridge),
            << If1 >>, <<>>, FALSE).ifaces }

Init ==
    /\ statusIfaces = NodeStatus
    /\ specIfaces \in InitialDesired
    /\ specBridges = NilBridges
    /\ gate = NoGate
    /\ threads = NoThreads
    /\ pass = NoPass
    /\ call = NoCall

\* What p.Apply(state, equalPriority) returns and leaves in the current state.
ApplyResult(p, eq) == Apply(p, statusIfaces, specIfaces, eq)

\* What p.ApplyBridgeConfig(state) returns and leaves in the current state.
BridgeResult(p) == ApplyBridgeConfig(p, statusIfaces, specBridges)

\* p.Apply(state, equalPriority) for any policy and flag.
ApplyCall ==
    \E p \in VfPolicies, eq \in BOOLEAN :
        /\ specIfaces' = ApplyResult(p, eq).ifaces
        /\ UNCHANGED << statusIfaces, specBridges, pass, call, gate, threads >>

\* p.ApplyBridgeConfig(state) for any policy.
BridgeCall ==
    \E p \in NodeBridgePolicies :
        /\ specBridges' = BridgeResult(p).bridges
        /\ UNCHANGED << statusIfaces, specIfaces, pass, call, gate, threads >>

Next == ApplyCall \/ BridgeCall

Spec == Init /\ [][Next]_vars

(***************************************************************************)
(* Properties of the node state under Apply and ApplyBridgeConfig.         *)
(***************************************************************************)

\* The VF indexes a range of the model can hold.
VfIndexes == 0..MaxVfs

\* C1: in every desired interface the VF ranges of the groups are pairwise
\* non-overlapping: no VF index belongs to two groups of one PF.
C1_NoVfInTwoGroups ==
    \A i \in DOMAIN specIfaces :
        \A a, b \in DOMAIN specIfaces[i].VfGroups :
            a # b =>
                \A v \in VfIndexes :
                    ~(/\ IndexInRange(v, specIfaces[i].VfGroups[a].VfRange)
                      /\ IndexInRange(v, specIfaces[i].VfGroups[b].VfRange))

\* A PF holds two groups, after a policy with an overlapping range was applied
\* to a PF that held a group: here the groups are those of two policies.
C1_Witness ==
    \E i \in DOMAIN specIfaces :
        /\ Len(specIfaces[i].VfGroups) = 2
        /\ specIfaces[i].VfGroups[1].PolicyName # specIfaces[i].VfGroups[2].PolicyName

\* C4: no two entries of the desired interface list have the same PCI address.
C4_UniquePci ==
    \A i, j \in DOMAIN specIfaces :
        i # j => specIfaces[i].PciAddress # specIfaces[j].PciAddress

\* The observed list names a PCI address twice and the desired list holds one
\* entry for it, next to an entry for another port.
C4_Witness ==
    /\ Len(specIfaces) = 2
    /\ \E i, j \in DOMAIN statusIfaces :
          /\ i # j
          /\ statusIfaces[i].PciAddress = statusIfaces[j].PciAddress
          /\ \E k \in DOMAIN specIfaces :
                specIfaces[k].PciAddress = statusIfaces[i].PciAddress

\* C6: with an empty NIC selector Apply and ApplyBridgeConfig return no error
\* and leave the desired interfaces and bridges as they are, in every node
\* state and whatever the policy's other fields.
C6_EmptySelectorChangesNothing ==
    /\ \A p \in VfPolicies, eq \in BOOLEAN :
          p.NicSelector = NoSelector =>
              ApplyResult(p, eq) = [ifaces |-> specIfaces, err |-> "nil"]
    /\ \A p \in NodeBridgePolicies :
          p.NicSelector = NoSelector =>
              BridgeResult(p) = [bridges |-> specBridges, err |-> "nil"]

\* A node state with desired interfaces and bridges, and an empty-selector
\* policy whose bridge settings do not pass the checks of ApplyBridgeConfig.
C6_Witness ==
    /\ specIfaces # <<>>
    /\ specBridges.list # <<>>
    /\ \E p \in NodeBridgePolicies :
          /\ p.NicSelector = NoSelector
          /\ BridgeSanity(p) = "error"
          /\ BridgeResult(p).err = "nil"
    /\ \E p \in VfPolicies : p.NicSelector = NoSelector /\ p.NumVfs > 0

\* Whether the desired list holds an entry for the PCI address.
HasEntry(ifaces, pci) == \E i \in DOMAIN ifaces : ifaces[i].PciAddress = pci

\* C7 as stated: after Apply with a non-empty selector returns no error,
\* every observed interface the selector matches has a desired entry, whether
\* or not the policy asks for VFs.
C7_Original ==
    \A p \in VfPolicies, eq \in BOOLEAN :
        LET r == ApplyResult(p, eq)
        IN  (~IsEmpty(p.NicSelector) /\ r.err = "nil") =>
                \A k \in DOMAIN statusIfaces :
                    Selected(p.NicSelector, statusIfaces[k]) =>
                        HasEntry(r.ifaces, statusIfaces[k].PciAddress)

\* C7 amended: the same for a policy that asks for VFs (NumVfs > 0).
C7_MatchedGetEntry ==
    \A p \in VfPolicies, eq \in BOOLEAN :
        LET r == ApplyResult(p, eq)
        IN  (~IsEmpty(p.NicSelector) /\ p.NumVfs > 0 /\ r.err = "nil") =>
                \A k \in DOMAIN statusIfaces :
                    Selected(p.NicSelector, statusIfaces[k]) =>
                        HasEntry(r.ifaces, statusIfaces[k].PciAddress)

\* A policy that asks for VFs matches a port that has an entry and a port
\* that has none, and Apply returns no error.
C7_Witness ==
    \E p \in VfPolicies :
        /\ ~IsEmpty(p.NicSelector) /\ p.NumVfs > 0
        /\ ApplyResult(p, TRUE).err = "nil"
        /\ \E k, l \in DOMAIN statusIfaces :
              /\ Selected(p.NicSelector, statusIfaces[k])
              /\ Selected(p.NicSelector, statusIfaces[l])
              /\ HasEntry(specIfaces, statusIfaces[k].PciAddress)
              /\ ~HasEntry(specIfaces, statusIfaces[l].PciAddress)
              /\ Len(ApplyResult(p, TRUE).ifaces) = Len(specIfaces) + 1

\* C10 as stated: an Apply call never lowers the MTU or the VF count of an
\* existing desired entry.
C10_Original ==
    \A p \in VfPolicies, eq \in BOOLEAN :
        LET r == ApplyResult(p, eq)
        IN  \A i \in DOMAIN specIfaces :
                /\ r.ifaces[i].Mtu >= specIfaces[i].Mtu
                /\ r.ifaces[i].NumVfs >= specIfaces[i].NumVfs

\* C10 amended: an Apply call does not lower the MTU or the VF count of an
\* existing entry when equalPriority is set or the merged entry carries an
\* existing group forward; otherwise the entry is untouched or takes the
\* policy's own MTU and VF count.
C10_NoShrinkWhenBlended ==
    \A p \in VfPolicies, eq \in BOOLEAN :
        LET r == ApplyResult(p, eq)
        IN  \A i \in DOMAIN specIfaces :
            LET old == specIfaces[i]
                new == r.ifaces[i]
            IN  IF eq \/ Len(new.VfGroups) > 1
                THEN new.Mtu >= old.Mtu /\ new.NumVfs >= old.NumVfs
                ELSE new = old \/ (new.Mtu = p.Mtu /\ new.NumVfs = p.NumVfs)

\* Apply merges a policy with a lower MTU into an entry and the entry keeps
\* its MTU, and merges one with a lower VF count and the entry keeps its count.
C10_Witness ==
    /\ \E p \in VfPolicies, eq \in BOOLEAN, i \in DOMAIN specIfaces :
          LET new == ApplyResult(p, eq).ifaces[i]
          IN  /\ new # specIfaces[i]
              /\ p.Mtu < specIfaces[i].Mtu
              /\ new.Mtu = specIfaces[i].Mtu
    /\ \E p \in VfPolicies, eq \in BOOLEAN, i \in DOMAIN specIfaces :
          LET new == ApplyResult(p, eq).ifaces[i]
          IN  /\ new # specIfaces[i]
              /\ p.NumVfs < specIfaces[i].NumVfs
              /\ new.NumVfs = specIfaces[i].NumVfs

(***************************************************************************)
(* The bridge reconciler on a node with three ports.                       *)
(***************************************************************************)

\* The observed interfaces of the bridge node, not in PCI order.
BridgeStatus == << If1, If2, If0 >>

\* A port that is no longer observed but still has a bridge.
IfGone == [PciAddress |-> << "0", "3", ":", "0", "0", ".", "2" >>,
           Name |-> << "e", "t", "h", "x" >>, Vendor |-> "15b3",
           DeviceID |-> "1017", NetFilter |-> <<>>]

ByDevice == [NoSelector EXCEPT !.DeviceID = "158b"]

\* The policies ApplyBridgeConfig is called with: with and without a bridge,
\* valid and not.
BridgePolicies ==
    { Policy(ProfileA, 99, sel, 0, mtu, esw, lt, ext, br) :
        sel \in {NoSelector, ByVendor, ByDevice, Named(<< Eth0 >>)},
        mtu \in {0, 9000},
        esw \in {"", ESwithModeSwitchDev},
        lt \in {"", "eth", "ETH", "ib"},
        ext \in BOOLEAN,
        br \in {NoBridge, OvsBridge, OvsBridgeSystem} }

\* The policy that made the bridges the node starts with.
EarlierBridgePolicy ==
    Policy(ProfileB, 99, ByVendor, 0, 0, ESwithModeSwitchDev, "", FALSE, OvsBridge)

\* The desired bridge lists the node starts with: none, an empty list, the
\* bridge of the port that is gone, and three bridges in name order.
InitialBridges ==
    { NilBridges,
      [isNil |-> FALSE, list |-> <<>>],
      [isNil |-> FALSE, list |-> << MakeOvsBridge(EarlierBridgePolicy, IfGone) >>],
      [isNil |-> FALSE, list |-> << MakeOvsBridge(EarlierBridgePolicy, If0),
                                    MakeOvsBridge(EarlierBridgePolicy, IfGone),
                                    MakeOvsBridge(EarlierBridgePolicy, If2) >>] }

InitBridge ==
    /\ statusIfaces = BridgeStatus
    /\ specIfaces = <<>>
    /\ specBridges \in InitialBridges
    /\ gate = NoGate
    /\ threads = NoThreads
    /\ pass = NoPass
    /\ call = NoCall

\* p.ApplyBridgeConfig(state) for any bridge policy; a call that fails
\* validation returns before it writes.
BridgeConfigCall ==
    \E p \in BridgePolicies :
        /\ specBridges' = BridgeResult(p).bridges
        /\ UNCHANGED << statusIfaces, specIfaces, pass, call, gate, threads >>

NextBridge == BridgeConfigCall

SpecBridge == InitBridge /\ [][NextBridge]_vars

\* C3: the desired bridge list is strictly ascending by bridge name: it is
\* sorted and no two bridges have the same name.
C3_BridgesAscending ==
    \A i \in 1..(Len(specBridges.list) - 1) :
        Compare(specBridges.list[i].Name, specBridges.list[i + 1].Name) < 0

\* Four bridges: those of the three observed ports were inserted around the
\* bridge of the port that is gone, and the first was replaced by a later call.
C3_Witness ==
    /\ Len(specBridges.list) = 4
    /\ specBridges.list[1].Bridge.DatapathType = "system"
    /\ specBridges.list[2].Bridge.DatapathType = "netdev"
    /\ specBridges.list[3].Name = GenerateBridgeName(IfGone)
    /\ ~specBridges.list[4].Uplinks[1].Interface.MTURequest.isNil

\* Whether the policy names a bridge and its settings are not those of a
\* switchdev Ethernet port that the operator manages.
BridgeInvalid(p) ==
    /\ p.Bridge.hasOVS
    /\ \/ p.EswitchMode # "switchdev"
       \/ (p.LinkType # "" /\ p.LinkType \notin {"eth", "Eth", "ETH"})
       \/ p.ExternallyManaged

\* C11 as stated: a policy with a bridge and invalid settings makes
\* ApplyBridgeConfig return an error and leave the bridges as they were,
\* whatever its selector.
C11_Original ==
    \A p \in BridgePolicies :
        BridgeInvalid(p) =>
            BridgeResult(p) = [bridges |-> specBridges, err |-> "error"]

\* C11 amended: the same for a policy whose NIC selector is not empty; with
\* an empty selector the call returns no error before it checks the policy.
C11_InvalidBridgePolicyFails ==
    \A p \in BridgePolicies :
        (BridgeInvalid(p) /\ p.NicSelector # NoSelector) =>
            BridgeResult(p) = [bridges |-> specBridges, err |-> "error"]

\* The node holds four bridges and an externally managed Ethernet switchdev
\* policy with a bridge, matching two of the ports, is refused.
C11_Witness ==
    /\ Len(specBridges.list) = 4
    /\ \E p \in BridgePolicies :
          /\ p.NicSelector = ByVendor
          /\ p.Bridge.hasOVS
          /\ p.EswitchMode = "switchdev"
          /\ p.LinkType = "ETH"
          /\ p.ExternallyManaged
          /\ BridgeResult(p).err = "error"

\* The observed interfaces the policy matches: none for an empty selector.
Matched(p) ==
    { k \in DOMAIN statusIfaces :
        p.NicSelector # NoSelector /\ Selected(p.NicSelector, statusIfaces[k]) }

\* Whether the bridge has an uplink on an interface the policy matches.
UplinkOfMatched(p, br) ==
    \E k \in Matched(p), u \in DOMAIN br.Uplinks :
        br.Uplinks[u].PciAddress = statusIfaces[k].PciAddress

\* What C12 says of the bridges r left by a policy without a bridge.
RemovedExactly(p, r) ==
    /\ r.err = "nil"
    /\ r.bridges.list = SelectSeq(specBridges.list,
                                  LAMBDA br : ~UplinkOfMatched(p, br))
    /\ (Matched(p) = {} => r.bridges = specBridges)
    /\ (Matched(p) # {} => (r.bridges.isNil <=> r.bridges.list = <<>>))

\* C12: a policy without a bridge removes exactly the bridges with an uplink
\* on an interface it matches; the others stay as they are and in their
\* order, and a list emptied this way becomes nil.
C12_NoBridgeRemovesMatched ==
    \A p \in BridgePolicies : ~p.Bridge.hasOVS => RemovedExactly(p, BridgeResult(p))

\* Of four bridges a policy without a bridge removes the two of the ports it
\* matches and leaves the two others, the bridge of the port that is gone first.
C12_Witness ==
    /\ Len(specBridges.list) = 4
    /\ \E p \in BridgePolicies :
          /\ ~p.Bridge.hasOVS
          /\ p.NicSelector = ByVendor
          /\ Len(BridgeResult(p).bridges.list) = 2
          /\ BridgeResult(p).bridges.list[1].Name = GenerateBridgeName(IfGone)

\* What C13 says of the list new left by one step on the list old, for the
\* bridge built for the interface.
UpsertedOnce(old, new, bridge) ==
    /\ Cardinality({ i \in DOMAIN new : new[i].Name = bridge.Name }) = 1
    /\ IF \E i \in DOMAIN old : old[i].Name = bridge.Name
       THEN /\ Len(new) = Len(old)
            /\ \A i \in DOMAIN old :
                  new[i] = IF old[i].Name = bridge.Name THEN bridge ELSE old[i]
       ELSE /\ Len(new) = Len(old) + 1
            /\ SelectSeq(new, LAMBDA b : b.Name # bridge.Name) = old
            /\ \E i \in DOMAIN new : new[i] = bridge

\* Whether ApplyBridgeConfig for p, called again on the bridges r it left,
\* leaves them as they are.
AppliedAgain(p, r) == ApplyBridgeConfig(p, statusIfaces, r.bridges) = r

\* C13: for an interface matched by a valid policy with a bridge the step
\* leaves exactly one bridge of the interface's name, overwritten in place or
\* inserted; and applying the policy again changes nothing.
C13_UpsertOneBridge ==
    \A p \in BridgePolicies :
        (p.Bridge.hasOVS /\ ~BridgeInvalid(p)) =>
            /\ \A k \in Matched(p) :
                  /\ MakeOvsBridge(p, statusIfaces[k]).Name
                        = << "b", "r", "-" >>
                          \o [i \in 1..Len(statusIfaces[k].PciAddress) |->
                                 IF statusIfaces[k].PciAddress[i] = ":" THEN "_"
                                 ELSE statusIfaces[k].PciAddress[i]]
                  /\ UpsertedOnce(specBridges.list,
                                  BridgeOne(p, statusIfaces[k], specBridges).list,
                                  MakeOvsBridge(p, statusIfaces[k]))
            /\ AppliedAgain(p, BridgeResult(p))

\* The node holds the bridge an earlier call made for the first port but none
\* for the second, and a valid policy with other bridge settings matches
\* both: one bridge is overwritten and one is inserted.
C13_Witness ==
    \E p \in BridgePolicies :
        /\ p.Bridge.hasOVS /\ ~BridgeInvalid(p)
        /\ p.NicSelector = ByVendor
        /\ \E i \in DOMAIN specBridges.list :
              /\ specBridges.list[i].Name = GenerateBridgeName(If0)
              /\ specBridges.list[i].Bridge.DatapathType = "system"
              /\ specBridges.list[i] # MakeOvsBridge(p, If0)
        /\ \A i \in DOMAIN specBridges.list :
              specBridges.list[i].Name # GenerateBridgeName(If1)
        /\ Len(BridgeResult(p).bridges.list) = Len(specBridges.list) + 1

\* The policies whose order of application is compared: valid ones, with
\* either bridge or none.
OrderPolicies ==
    { p \in BridgePolicies :
        /\ p.NicSelector # NoSelector
        /\ p.EswitchMode = "switchdev"
        /\ p.LinkType = ""
        /\ p.Mtu > 0
        /\ ~p.ExternallyManaged }

\* The bridge list after ApplyBridgeConfig for p and then for q.
AfterBoth(p, q) ==
    ApplyBridgeConfig(q, statusIfaces, BridgeResult(p).bridges).bridges

\* C14: two policies that match disjoint sets of interfaces leave the same
\* bridge list in either order of application.
C14_OrderIndependent ==
    \A p, q \in OrderPolicies :
        Matched(p) \cap Matched(q) = {} => AfterBoth(p, q) = AfterBoth(q, p)

\* Earlier calls left the bridges of the second port and of the port that is
\* gone; two policies with bridges match the two other ports, and in either
\* order the bridge of the first port ends up in front.
C14_Witness ==
    /\ Len(specBridges.list) = 2
    /\ specBridges.list[1].Name = GenerateBridgeName(If1)
    /\ \E p, q \in OrderPolicies :
          /\ p.Bridge.hasOVS /\ q.Bridge.hasOVS
          /\ p.NicSelector = ByDevice /\ q.NicSelector = Named(<< Eth0 >>)
          /\ Len(AfterBoth(p, q).list) = 4
          /\ AfterBoth(p, q).list[1].Name = GenerateBridgeName(If0)
          /\ AfterBoth(p, q) = AfterBoth(q, p)

(***************************************************************************)
(* A resolution pass: the policies of a node applied in ByPriority order.  *)
(***************************************************************************)

\* The observed interfaces of the node of the pass.
PassStatus == << If0, If1 >>

\* What the administrator chose for each kind of policy: no such policy, or
\* its priority and selector.
PassChoices ==
    { << >> } \cup
    { << pr, sel >> :
        pr \in {10, 99},
        sel \in { ByVendor,
                  Named(<< Eth0 \o << "#", "0", "-", "1" >> >>),
                  Named(<< Eth0 \o << "#", "2", "-", "3" >> >>),
                  Named(<< Eth0, Eth1 \o << "#", "x", "-", "1" >> >>) } }

PassProfiles == {ProfileA, ProfileB, ProfileA3}

\* The policies of a node, for a choice f per kind of policy.
PoliciesOf(f) ==
    { Policy(prof, f[prof][1], f[prof][2], MaxVfs, 1500, "", "", FALSE, NoBridge) :
        prof \in {q \in PassProfiles : f[q] # << >>} }

\* sort.Sort(ByPriority(policies)): the policies in the order of Less.
RECURSIVE SortByPriority(_)
SortByPriority(S) ==
    IF S = {} THEN << >>
    ELSE LET first == CHOOSE x \in S : \A y \in S \ {x} : Less(x, y)
         IN  << first >> \o SortByPriority(S \ {first})

InitPass ==
    /\ statusIfaces = PassStatus
    /\ specIfaces = <<>>
    /\ specBridges = NilBridges
    /\ gate = NoGate
    /\ threads = NoThreads
    /\ call = NoCall
    /\ \E f \in [PassProfiles -> PassChoices] :
          pass = [todo |-> SortByPriority(PoliciesOf(f)), applied |-> <<>>,
                  failed |-> FALSE]

\* The pass after Apply returned r for the first policy to apply.
PassAfter(r) ==
    [todo |-> Tail(pass.todo),
     applied |-> Append(pass.applied, Head(pass.todo)),
     failed |-> r.err # "nil"]

\* The caller applies the next policy of the sorted list; the pass ends with
\* the first error.
PassStep ==
    /\ pass.todo # <<>>
    /\ ~pass.failed
    /\ \E eq \in BOOLEAN :
          /\ specIfaces' = ApplyResult(Head(pass.todo), eq).ifaces
          /\ pass' = PassAfter(ApplyResult(Head(pass.todo), eq))
    /\ UNCHANGED << statusIfaces, specBridges, call, gate, threads >>

NextPass == PassStep

SpecPass == InitPass /\ [][NextPass]_vars

\* The pass applied every policy without error.
PassDone == pass.todo = <<>> /\ ~pass.failed /\ pass.applied # <<>>

\* Whether the desired entry of the PCI address holds a group of the policy.
OwnsGroup(pci, name) ==
    \E i \in DOMAIN specIfaces :
        /\ specIfaces[i].PciAddress = pci
        /\ \E g \in DOMAIN specIfaces[i].VfGroups :
              specIfaces[i].VfGroups[g].PolicyName = name

\* Whether the policies a and b both select the interface and ask for VF
\* ranges with a common VF index.
Contend(a, b, iface) ==
    /\ Selected(a.NicSelector, iface)
    /\ Selected(b.NicSelector, iface)
    /\ \E v \in VfIndexes :
          /\ IndexInRange(v, generatePfNameVfGroup(a, iface).group.VfRange)
          /\ IndexInRange(v, generatePfNameVfGroup(b, iface).group.VfRange)

\* Whether a policy applied after entry y of the pass drops y's group on the
\* interface: it selects the interface with the same resource or a common index.
DroppedLater(y, iface) ==
    \E z \in (y + 1)..Len(pass.applied) :
        /\ Selected(pass.applied[z].NicSelector, iface)
        /\ \/ pass.applied[z].ResourceName = pass.applied[y].ResourceName
           \/ Contend(pass.applied[y], pass.applied[z], iface)

\* C2 as stated: at the end of a pass, of two policies with different
\* priorities that select one PF with overlapping VF ranges, the one with the
\* higher priority integer owns a group of the PF and the other owns none.
C2_Original ==
    PassDone =>
        \A x, y \in DOMAIN pass.applied, k \in DOMAIN statusIfaces :
            (/\ pass.applied[x].Priority > pass.applied[y].Priority
             /\ Contend(pass.applied[x], pass.applied[y], statusIfaces[k]))
            => /\ OwnsGroup(statusIfaces[k].PciAddress, pass.applied[x].Name)
               /\ ~OwnsGroup(statusIfaces[k].PciAddress, pass.applied[y].Name)

\* C2 amended: the policy with the higher priority integer owns no group of
\* the PF, and the one with the lower integer, applied later, owns one unless
\* a policy applied after it dropped it.
C2_LowerIntegerOwns ==
    PassDone =>
        \A x, y \in DOMAIN pass.applied, k \in DOMAIN statusIfaces :
            (/\ pass.applied[x].Priority > pass.applied[y].Priority
             /\ Contend(pass.applied[x], pass.applied[y], statusIfaces[k]))
            => /\ ~OwnsGroup(statusIfaces[k].PciAddress, pass.applied[x].Name)
               /\ (~DroppedLater(y, statusIfaces[k])
                      => OwnsGroup(statusIfaces[k].PciAddress, pass.applied[y].Name))

\* A pass of two policies with priorities 99 and 10 and overlapping ranges on
\* the first port has ended, and the port's only group is the second policy's.
C2_Witness ==
    /\ PassDone
    /\ Len(pass.applied) = 2
    /\ pass.applied[1].Priority > pass.applied[2].Priority
    /\ Contend(pass.applied[1], pass.applied[2], statusIfaces[1])
    /\ OwnsGroup(statusIfaces[1].PciAddress, pass.applied[2].Name)
    /\ ~OwnsGroup(statusIfaces[1].PciAddress, pass.applied[1].Name)

(***************************************************************************)
(* Calls of Selected on the selectors and interfaces of the model.         *)
(***************************************************************************)

\* The selectors Selected is called with: every combination of the criteria.
CallSelectors ==
    { [Vendor |-> v, DeviceID |-> d, RootDevices |-> rd, PfNames |-> pf,
       NetFilter |-> nf] :
        v \in {"", "15b3", "8086"},
        d \in {"", "1017"},
        rd \in { <<>>, << Pci0 >>, << Pci0, Pci2 >> },
        pf \in { <<>>, << Eth0 >>, << Eth1 \o << "#", "0", "-", "1" >> >> },
        nf \in { <<>>, << "x", ":", "1" >>, << "x", ":", "2" >> } }

InitSelected ==
    /\ statusIfaces = <<>>
    /\ specIfaces = <<>>
    /\ specBridges = NilBridges
    /\ gate = NoGate
    /\ threads = NoThreads
    /\ pass = NoPass
    /\ \E s \in CallSelectors, iface \in {If0, If1, If2} :
          call = [fn |-> "Selected", selector |-> s, iface |-> iface,
                  done |-> FALSE, out |-> FALSE]

\* selector.Selected(iface).
SelectedCall ==
    /\ call.fn = "Selected"
    /\ ~call.done
    /\ call' = [call EXCEPT !.done = TRUE,
                            !.out = Selected(call.selector, call.iface)]
    /\ UNCHANGED << statusIfaces, specIfaces, specBridges, pass, gate, threads >>

NextSelected == SelectedCall

SpecSelected == InitSelected /\ [][NextSelected]_vars

\* C5 as stated: for a selector whose fields are all empty Selected returns
\* false for every interface.
C5_Original ==
    (call.fn = "Selected" /\ call.done /\ IsEmpty(call.selector)) => ~call.out

\* C5 amended: for a selector whose fields are all empty Selected returns true
\* for every interface; that the empty selector matches nothing is the work of
\* the IsEmpty test of Apply and ApplyBridgeConfig.
C5_EmptySelectorSelectsAll ==
    (call.fn = "Selected" /\ call.done /\ IsEmpty(call.selector)) => call.out

\* Selected has returned for the selector without criteria.
C5_Witness ==
    /\ call.fn = "Selected"
    /\ call.done
    /\ call.selector = NoSelector
    /\ call.iface = If2

(***************************************************************************)
(* Calls of mergeConfigs on the desired entries Apply can leave.           *)
(***************************************************************************)

\* The VF indexes of the ranges mergeConfigs is called with.
MergeIndexes == 0..5

\* The range string "a-b".
RangeStr(a, b) == Itoa(a) \o << "-" >> \o Itoa(b)

MergeRanges ==
    { RangeStr(0, 1), RangeStr(2, 3), RangeStr(1, 2), RangeStr(0, 3), RangeStr(4, 5) }

\* A VF group of a resource on a range.
MergeGroup(res, rng) ==
    [ResourceName |-> res, DeviceType |-> "netdevice", VfRange |-> rng,
     PolicyName |-> P1, Mtu |-> 1500, IsRdma |-> FALSE, VdpaType |-> ""]

\* The existing VF groups of the calls: three resources, each on any range.
MergeGroups ==
    { MergeGroup(res, rng) : res \in {"resA", "resB", "resC"}, rng \in MergeRanges }

\* The incoming VF groups: a resource the entry may hold and one it does not.
IncomingGroups ==
    { MergeGroup(res, rng) :
        res \in {"resA", "resD"},
        rng \in { RangeStr(0, 1), RangeStr(2, 3), RangeStr(1, 2) } }

\* Whether two ranges have a VF index in common.
SharesIndex(r1, r2) ==
    \E v \in MergeIndexes : IndexInRange(v, r1) /\ IndexInRange(v, r2)

\* The group lists a desired entry can hold: up to three groups with distinct
\* resource names and pairwise disjoint ranges.
MergeGroupLists ==
    { gs \in UNION { [1..n -> MergeGroups] : n \in 0..3 } :
        \A i, j \in DOMAIN gs :
            i # j => /\ gs[i].ResourceName # gs[j].ResourceName
                     /\ ~SharesIndex(gs[i].VfRange, gs[j].VfRange) }

\* A desired Interface entry of the first port.
MergeIface(mtu, numVfs, groups) ==
    [PciAddress |-> Pci0, Mtu |-> mtu, Name |-> Eth0, LinkType |-> "",
     EswitchMode |-> "", NumVfs |-> numVfs, ExternallyManaged |-> FALSE,
     VfGroups |-> groups]

\* The MTU and VF count of an entry.
MergeScalars == { << 1500, 4 >>, << 9000, 2 >> }

InitMerge ==
    /\ statusIfaces = <<>>
    /\ specIfaces = <<>>
    /\ specBridges = NilBridges
    /\ gate = NoGate
    /\ threads = NoThreads
    /\ pass = NoPass
    /\ \E gs \in MergeGroupLists, old \in MergeScalars, new \in MergeScalars,
          eq \in BOOLEAN, g \in IncomingGroups :
          call = [fn |-> "mergeConfigs",
                  iface |-> MergeIface(old[1], old[2], gs),
                  input |-> MergeIface(new[1], new[2], << g >>),
                  equalPriority |-> eq,
                  done |-> FALSE,
                  out |-> MergeIface(new[1], new[2], << g >>)]

\* iface.mergeConfigs(&input, equalPriority): out is *input after the call.
MergeCall ==
    /\ call.fn = "mergeConfigs"
    /\ ~call.done
    /\ call' = [call EXCEPT !.done = TRUE,
                            !.out = mergeConfigs(call.iface, call.input,
                                                 call.equalPriority)]
    /\ UNCHANGED << statusIfaces, specIfaces, specBridges, pass, gate, threads >>

NextMerge == MergeCall

SpecMerge == InitMerge /\ [][NextMerge]_vars

MergeDone == call.fn = "mergeConfigs" /\ call.done

\* Whether mergeConfigs is to keep the existing group: another resource name
\* and no VF index in common with the incoming group.
Disjoint(gr, incoming) ==
    /\ gr.ResourceName # incoming.ResourceName
    /\ ~SharesIndex(gr.VfRange, incoming.VfRange)

\* C8: the merged group list is the incoming group followed by exactly the
\* existing groups that neither share its resource name nor overlap its range,
\* in their previous order.
C8_IncomingThenDisjoint ==
    MergeDone =>
        call.out.VfGroups =
            << call.input.VfGroups[1] >>
            \o SelectSeq(call.iface.VfGroups,
                         LAMBDA gr : Disjoint(gr, call.input.VfGroups[1]))

\* The entry held three groups: one overlapped the incoming range and was
\* dropped, the two others were carried forward in their order.
C8_Witness ==
    /\ MergeDone
    /\ Len(call.iface.VfGroups) = 3
    /\ Len(call.out.VfGroups) = 3
    /\ call.out.VfGroups[2] = call.iface.VfGroups[1]
    /\ call.out.VfGroups[3] = call.iface.VfGroups[3]
    /\ call.iface.VfGroups[2].ResourceName # call.input.VfGroups[1].ResourceName

\* The larger of two integers.
Max(a, b) == IF a < b THEN b ELSE a

\* C9: without equalPriority and without a group carried forward the merged
\* MTU and VF count are the incoming ones; otherwise each is the larger of
\* the existing and the incoming value.
C9_ScalarRule ==
    MergeDone =>
        IF ~call.equalPriority /\ Len(call.out.VfGroups) = Len(call.input.VfGroups)
        THEN /\ call.out.Mtu = call.input.Mtu
             /\ call.out.NumVfs = call.input.NumVfs
        ELSE /\ call.out.Mtu = Max(call.iface.Mtu, call.input.Mtu)
             /\ call.out.NumVfs = Max(call.iface.NumVfs, call.input.NumVfs)

\* A merge without equalPriority that dropped the only existing group left
\* the lower incoming MTU in place of the existing one.
C9_Witness ==
    /\ MergeDone
    /\ ~call.equalPriority
    /\ Len(call.iface.VfGroups) = 1
    /\ Len(call.out.VfGroups) = 1
    /\ call.iface.Mtu > call.input.Mtu
    /\ call.out.Mtu = call.input.Mtu
    /\ call.out.NumVfs > call.iface.NumVfs

(***************************************************************************)
(* The drift oracle: NeedToUpdateSriov on a desired and an observed port.  *)
(***************************************************************************)

ESwithModeLegacy == "legacy"

LinkAdminStateDown == "down"

DeviceTypeNetDevice == "netdevice"

LinkTypeIB == "IB"

UninitializedNodeGUID == "0000:0000:0000:0000"

\* vars.DpdkDrivers: the drivers that take a VF away from the kernel.
DpdkDrivers == << "igb_uio", "vfio-pci", "uio_pci_generic" >>

\* A faulty reading of the desired mode: an unset mode is not taken for
\* legacy.
GetEswitchModeFromSpecAsWritten(ifaceSpec) == ifaceSpec.EswitchMode

GetEswitchModeFromSpec(ifaceSpec) ==
    IF ifaceSpec.EswitchMode = "" THEN ESwithModeLegacy ELSE ifaceSpec.EswitchMode

GetEswitchModeFromStatus(ifaceStatus) ==
    IF ifaceStatus.EswitchMode = "" THEN ESwithModeLegacy ELSE ifaceStatus.EswitchMode

\* A faulty MTU test: any difference of the MTUs counts.
MtuNeedsUpdateAnyDifference(ifaceSpec, ifaceStatus) ==
    ifaceSpec.Mtu # ifaceStatus.Mtu

\* The MTU test of NeedToUpdateSriov.
MtuNeedsUpdate(ifaceSpec, ifaceStatus) ==
    ifaceSpec.Mtu > 0 /\ ifaceSpec.Mtu > ifaceStatus.Mtu

\* A faulty link test: the link state is not looked at.
LinkNeedsUpdateNever(ifaceStatus) == FALSE

\* The link admin state test of NeedToUpdateSriov.
LinkNeedsUpdate(ifaceStatus) == ifaceStatus.LinkAdminState = LinkAdminStateDown

\* The tests of NeedToUpdateSriov for an observed VF and the desired group
\* whose range holds its index.
VfNeedsUpdate(ifaceSpec, ifaceStatus, vfStatus, groupSpec) ==
    IF vfStatus.Driver = "" THEN TRUE
    ELSE IF groupSpec.DeviceType # "" /\ groupSpec.DeviceType # DeviceTypeNetDevice
         THEN IF groupSpec.DeviceType # vfStatus.Driver THEN TRUE
              ELSE groupSpec.VdpaType # vfStatus.VdpaType
    ELSE IF StringInArray(vfStatus.Driver, DpdkDrivers) THEN TRUE
    ELSE IF vfStatus.Mtu # 0 /\ groupSpec.Mtu # 0 /\ vfStatus.Mtu # groupSpec.Mtu
         THEN TRUE
    ELSE IF /\ \/ (EqualFold(ifaceStatus.LinkType, LinkTypeETH) /\ groupSpec.IsRdma)
               \/ EqualFold(ifaceStatus.LinkType, LinkTypeIB)
            /\ vfStatus.GUID = UninitializedNodeGUID
         THEN TRUE
    ELSE IF ifaceSpec.ExternallyManaged THEN TRUE
    ELSE groupSpec.VdpaType # vfStatus.VdpaType

\* A faulty scan of the groups: the last group whose range holds the index
\* is the one tested.
LastGroupOf(ifaceSpec, vfID) ==
    IF \E g \in DOMAIN ifaceSpec.VfGroups :
          IndexInRange(vfID, ifaceSpec.VfGroups[g].VfRange)
    THEN CHOOSE g \in DOMAIN ifaceSpec.VfGroups :
             /\ IndexInRange(vfID, ifaceSpec.VfGroups[g].VfRange)
             /\ \A h \in (g + 1)..Len(ifaceSpec.VfGroups) :
                   ~IndexInRange(vfID, ifaceSpec.VfGroups[h].VfRange)
    ELSE 0

\* The first desired group whose range holds the index, 0 if none.
FirstGroupOf(ifaceSpec, vfID) ==
    IF \E g \in DOMAIN ifaceSpec.VfGroups :
          IndexInRange(vfID, ifaceSpec.VfGroups[g].VfRange)
    THEN CHOOSE g \in DOMAIN ifaceSpec.VfGroups :
             /\ IndexInRange(vfID, ifaceSpec.VfGroups[g].VfRange)
             /\ \A h \in 1..(g - 1) :
                   ~IndexInRange(vfID, ifaceSpec.VfGroups[h].VfRange)
    ELSE 0

\* The loops of NeedToUpdateSriov: some observed VF, tested against the first
\* group of its index, needs an update.
VfsNeedUpdate(ifaceSpec, ifaceStatus) ==
    \E v \in DOMAIN ifaceStatus.VFs :
        /\ FirstGroupOf(ifaceSpec, ifaceStatus.VFs[v].VfID) # 0
        /\ VfNeedsUpdate(ifaceSpec, ifaceStatus, ifaceStatus.VFs[v],
                         ifaceSpec.VfGroups[FirstGroupOf(ifaceSpec,
                                                         ifaceStatus.VFs[v].VfID)])

NeedToUpdateSriov(ifaceSpec, ifaceStatus) ==
    IF MtuNeedsUpdate(ifaceSpec, ifaceStatus) THEN TRUE
    ELSE IF GetEswitchModeFromStatus(ifaceStatus) # GetEswitchModeFromSpec(ifaceSpec)
         THEN TRUE
    ELSE IF ifaceSpec.NumVfs # ifaceStatus.NumVfs THEN TRUE
    ELSE IF LinkNeedsUpdate(ifaceStatus) THEN TRUE
    ELSE IF ifaceSpec.NumVfs > 0 THEN VfsNeedUpdate(ifaceSpec, ifaceStatus)
    ELSE FALSE

\* An observed VF.
VfStatus(vfID, driver, mtu, guid, vdpaType) ==
    [VfID |-> vfID, Driver |-> driver, Mtu |-> mtu, GUID |-> guid,
     VdpaType |-> vdpaType]

\* The observed VF lists of the calls: no VF; a VF of the group with the
\* kernel driver and everything as desired; the same with a user-space
\* driver, without driver, with another MTU, with the GUID not read, with a
\* VDPA type; and a VF outside the group without driver.
ObservedVfLists ==
    { <<>>,
      << VfStatus(0, "mlx5_core", 1500, "11:22:33:44", "") >>,
      << VfStatus(0, "vfio-pci", 1500, "11:22:33:44", "") >>,
      << VfStatus(0, "", 1500, "11:22:33:44", "") >>,
      << VfStatus(0, "mlx5_core", 9000, "11:22:33:44", "") >>,
      << VfStatus(0, "mlx5_core", 1500, UninitializedNodeGUID, "") >>,
      << VfStatus(0, "vfio-pci", 1500, "11:22:33:44", "vhost") >>,
      << VfStatus(5, "", 1500, "11:22:33:44", "") >> }

\* The desired group of the calls, on the VFs 0-1.
DriftGroup(deviceType, isRdma) ==
    [ResourceName |-> "resA", DeviceType |-> deviceType, VfRange |-> RangeStr(0, 1),
     PolicyName |-> P1, Mtu |-> 1500, IsRdma |-> isRdma, VdpaType |-> ""]

\* The desired and observed eswitch modes, and VF counts, of the calls.
DriftModes == { << "", "legacy" >>, << "switchdev", "" >>,
                << "switchdev", "switchdev" >> }

DriftNumVfs == { << 0, 0 >>, << 2, 2 >>, << 2, 0 >> }

InitDrift ==
    /\ statusIfaces = <<>>
    /\ specIfaces = <<>>
    /\ specBridges = NilBridges
    /\ gate = NoGate
    /\ threads = NoThreads
    /\ pass = NoPass
    /\ \E mtu \in {0, 1500, 9000}, seen \in {1500, 9000}, esw \in DriftModes,
          n \in DriftNumVfs, link \in {"up", "down"}, ext \in BOOLEAN,
          dt \in {"", "netdevice", "vfio-pci"}, rdma \in BOOLEAN,
          vfs \in ObservedVfLists :
          call = [fn |-> "NeedToUpdateSriov",
                  ifaceSpec |->
                      [PciAddress |-> Pci0, Name |-> Eth0, Mtu |-> mtu,
                       LinkType |-> "", EswitchMode |-> esw[1], NumVfs |-> n[1],
                       ExternallyManaged |-> ext,
                       VfGroups |-> IF n[1] = 0 THEN <<>>
                                    ELSE << DriftGroup(dt, rdma) >>],
                  ifaceStatus |->
                      [PciAddress |-> Pci0, Name |-> Eth0, Mtu |-> seen,
                       LinkType |-> "ETH", EswitchMode |-> esw[2], NumVfs |-> n[2],
                       LinkAdminState |-> link, VFs |-> vfs],
                  done |-> FALSE,
                  out |-> FALSE]

\* NeedToUpdateSriov(ifaceSpec, ifaceStatus).
DriftCall ==
    /\ call.fn = "NeedToUpdateSriov"
    /\ ~call.done
    /\ call' = [call EXCEPT !.done = TRUE,
                            !.out = NeedToUpdateSriov(call.ifaceSpec,
                                                      call.ifaceStatus)]
    /\ UNCHANGED << statusIfaces, specIfaces, specBridges, pass, gate, threads >>

NextDrift == DriftCall

SpecDrift == InitDrift /\ [][NextDrift]_vars

DriftDone == call.fn = "NeedToUpdateSriov" /\ call.done

\* Whether an observed VF of a desired group is as the group wants it: a
\* driver, the group's own or a kernel one, the group's MTU and VDPA type, a
\* GUID that was read where one is needed.
VfAsDesired(ifaceSpec, ifaceStatus, vf, g) ==
    /\ vf.Driver # ""
    /\ vf.VdpaType = g.VdpaType
    /\ IF g.DeviceType \in {"", "netdevice"}
       THEN /\ vf.Driver \notin {"igb_uio", "vfio-pci", "uio_pci_generic"}
            /\ (vf.Mtu = 0 \/ g.Mtu = 0 \/ vf.Mtu = g.Mtu)
            /\ (vf.GUID = "0000:0000:0000:0000" =>
                   ~(ifaceStatus.LinkType \in {"ib", "IB"}
                     \/ (ifaceStatus.LinkType \in {"eth", "ETH"} /\ g.IsRdma)))
            /\ ~ifaceSpec.ExternallyManaged
       ELSE vf.Driver = g.DeviceType

\* Whether everything NeedToUpdateSriov compares besides the PF MTU matches.
OtherAxesMatch(ifaceSpec, ifaceStatus) ==
    /\ (IF ifaceSpec.EswitchMode = "" THEN "legacy" ELSE ifaceSpec.EswitchMode)
          = (IF ifaceStatus.EswitchMode = "" THEN "legacy"
             ELSE ifaceStatus.EswitchMode)
    /\ ifaceSpec.NumVfs = ifaceStatus.NumVfs
    /\ ifaceStatus.LinkAdminState # "down"
    /\ \A v \in DOMAIN ifaceStatus.VFs, g \in DOMAIN ifaceSpec.VfGroups :
          IndexInRange(ifaceStatus.VFs[v].VfID, ifaceSpec.VfGroups[g].VfRange)
          => VfAsDesired(ifaceSpec, ifaceStatus, ifaceStatus.VFs[v],
                         ifaceSpec.VfGroups[g])

\* C15: NeedToUpdateSriov returns true when the desired PF MTU is above 0 and
\* above the observed one; a desired MTU of 0 or not above the observed one,
\* with everything else matching, gives false.
C15_MtuGrowthOnly ==
    DriftDone =>
        IF call.ifaceSpec.Mtu > 0 /\ call.ifaceSpec.Mtu > call.ifaceStatus.Mtu
        THEN call.out
        ELSE OtherAxesMatch(call.ifaceSpec, call.ifaceStatus) => ~call.out

\* The call returned false for a desired MTU of 1500 on a port observed with
\* 9000, two VFs on each side and an observed VF as desired.
C15_Witness ==
    /\ DriftDone
    /\ call.ifaceSpec.Mtu = 1500
    /\ call.ifaceStatus.Mtu = 9000
    /\ call.ifaceSpec.NumVfs = 2
    /\ call.ifaceStatus.VFs # <<>>
    /\ call.ifaceStatus.VFs[1].VfID = 0
    /\ OtherAxesMatch(call.ifaceSpec, call.ifaceStatus)
    /\ ~call.out

\* C16: NeedToUpdateSriov returns true whenever the observed link admin state
\* is down.
C16_LinkDownNeedsUpdate ==
    (DriftDone /\ call.ifaceStatus.LinkAdminState = "down") => call.out

\* The call returned for a port whose link is down and where nothing else
\* differs: no VFs desired, the MTU not above the observed one.
C16_Witness ==
    /\ DriftDone
    /\ call.ifaceStatus.LinkAdminState = "down"
    /\ call.ifaceSpec.NumVfs = 0
    /\ call.ifaceStatus.NumVfs = 0
    /\ call.ifaceSpec.Mtu = 0
    /\ call.ifaceSpec.EswitchMode = "switchdev"
    /\ call.ifaceStatus.EswitchMode = "switchdev"
    /\ call.out

\* C17 as stated: with VFs desired and the interface externally managed,
\* NeedToUpdateSriov returns true whenever an observed VF's index is in the
\* range of a desired group, whatever the group's device type.
C17_Original ==
    (/\ DriftDone
     /\ call.ifaceSpec.NumVfs > 0
     /\ call.ifaceSpec.ExternallyManaged
     /\ \E v \in DOMAIN call.ifaceStatus.VFs, g \in DOMAIN call.ifaceSpec.VfGroups :
           IndexInRange(call.ifaceStatus.VFs[v].VfID,
                        call.ifaceSpec.VfGroups[g].VfRange))
    => call.out

(***************************************************************************)
(* Calls of isVFRangeOverlapping on well-formed and malformed ranges.      *)
(***************************************************************************)

\* Range strings that do not parse: empty, no '-', a bound that is no number
\* or is missing.
MalformedRanges ==
    { <<>>, << "5" >>, << "x" >>, << "x", "-", "1" >>, << "1", "-", "x" >>,
      << "1", "-" >>, << "-", "1" >> }

InitOverlap ==
    /\ statusIfaces = <<>>
    /\ specIfaces = <<>>
    /\ specBridges = NilBridges
    /\ gate = NoGate
    /\ threads = NoThreads
    /\ pass = NoPass
    /\ \E r1 \in MergeRanges \cup MalformedRanges,
          r2 \in MergeRanges \cup MalformedRanges :
          call = [fn |-> "isVFRangeOverlapping",
                  gr |-> MergeGroup("resA", r1),
                  group |-> MergeGroup("resB", r2),
                  done |-> FALSE,
                  out |-> "false"]

\* gr.isVFRangeOverlapping(group): out is "true", "false", or "panic" when
\* the call aborts with an index out of range.
OverlapCall ==
    /\ call.fn = "isVFRangeOverlapping"
    /\ ~call.done
    /\ call' = [call EXCEPT !.done = TRUE,
                            !.out = OverlapOutcome(call.gr.VfRange,
                                                   call.group.VfRange)]
    /\ UNCHANGED << statusIfaces, specIfaces, specBridges, pass, gate, threads >>

NextOverlap == OverlapCall

SpecOverlap == InitOverlap /\ [][NextOverlap]_vars

\* C18 as stated: isVFRangeOverlapping returns false, without aborting, when
\* one of the two ranges is malformed and the other is well-formed, in either
\* position.
C18_Original ==
    (/\ call.fn = "isVFRangeOverlapping"
     /\ call.done
     /\ \/ call.gr.VfRange \in MalformedRanges /\ call.group.VfRange \in MergeRanges
        \/ call.gr.VfRange \in MergeRanges /\ call.group.VfRange \in MalformedRanges)
    => call.out = "false"

(***************************************************************************)
(* The feature gate: Init and IsEnabled called one after the other.        *)
(*                                                                         *)
(* A Go map[string]bool is a function from the feature names to "true",    *)
(* "false" or "absent".  The maps are objects of a heap, so that a write    *)
(* through one reference is seen through every other reference to the     *)
(* same object: the defaults map, the state map, and the caller's map.     *)
(***************************************************************************)

Features == {"feat1", "feat2", "feat3"}

EmptyMap == [f \in Features |-> "absent"]

FeatureMaps == [Features -> {"absent", "true", "false"}]

\* maps.Copy(dst, src): the contents of dst after the call.
MapsCopy(dst, src) ==
    [f \in Features |-> IF src[f] # "absent" THEN src[f] ELSE dst[f]]

\* The most Init calls made on a gate.
MaxInits == 2

\* A faulty clone: the state is the defaults map itself, not a copy.
CloneDefaultsAliased(g) ==
    IF g.defaultsNil THEN [ref |-> "state", content |-> EmptyMap]
    ELSE [ref |-> "defaults", content |-> g.heap.defaults]

\* state := maps.Clone(fg.defaultFeatures), and an empty map for a nil clone:
\* a new object (in the place of the old state map, which Init drops) and its
\* contents.
CloneDefaults(g) ==
    [ref |-> "state",
     content |-> IF g.defaultsNil THEN EmptyMap ELSE g.heap.defaults]

\* maps.Copy(state, features) and fg.state = state, for the clone c.
CopyAndAssign(g, c) ==
    [g EXCEPT !.heap = [@ EXCEPT ![c.ref] = MapsCopy(c.content, g.heap.features)],
              !.stateRef = c.ref]

\* featureGate.Init(features), the caller's map being the object "features".
InitGate(g) == CopyAndAssign(g, CloneDefaults(g))

\* featureGate.IsEnabled(feature): fg.state[feature], false for a missing key.
IsEnabled(g, feature) == g.heap[g.stateRef][feature] = "true"

\* The defaults a gate is made with: none (nil), and two maps.
GateDefaults ==
    { [isNil |-> TRUE, m |-> EmptyMap],
      [isNil |-> FALSE,
       m |-> [f \in Features |-> IF f = "feat1" THEN "true"
                                 ELSE IF f = "feat2" THEN "false" ELSE "absent"]],
      [isNil |-> FALSE,
       m |-> [f \in Features |-> IF f = "feat1" THEN "false" ELSE "true"]] }

NoRead == [feature |-> "none", out |-> FALSE]

\* NewWithDefaultFeatures(defaultFeatures): an empty state map.  given keeps
\* the defaults as they were made and the map as the caller last passed it.
NewGate(d) ==
    [made |-> TRUE,
     heap |-> [defaults |-> d.m, state |-> EmptyMap, features |-> EmptyMap],
     defaultsNil |-> d.isNil,
     stateRef |-> "state",
     lock |-> [writer |-> "none", readers |-> {}],
     inits |-> 0,
     given |-> [defaults |-> d.m, features |-> EmptyMap],
     read |-> NoRead]

InitGateSeq ==
    /\ statusIfaces = <<>>
    /\ specIfaces = <<>>
    /\ specBridges = NilBridges
    /\ pass = NoPass
    /\ call = NoCall
    /\ threads = NoThreads
    /\ \E d \in GateDefaults : gate = NewGate(d)

\* The gate when the caller passes the map features to Init.
Passing(g, features) ==
    [g EXCEPT !.heap.features = features,
              !.given.features = features,
              !.inits = g.inits + 1,
              !.read = NoRead]

\* fg.Init(features) for any map.
GateInitCall ==
    /\ gate.inits < MaxInits
    /\ \E features \in FeatureMaps : gate' = InitGate(Passing(gate, features))
    /\ UNCHANGED << statusIfaces, specIfaces, specBridges, pass, call, threads >>

\* fg.IsEnabled(feature) for any feature.
GateReadCall ==
    /\ \E f \in Features :
          gate' = [gate EXCEPT !.read = [feature |-> f, out |-> IsEnabled(gate, f)]]
    /\ UNCHANGED << statusIfaces, specIfaces, specBridges, pass, call, threads >>

NextGateSeq == GateInitCall \/ GateReadCall

SpecGate == InitGateSeq /\ [][NextGateSeq]_vars

\* What the last Init map and the defaults say of a feature.
ExpectedEnabled(f) ==
    IF gate.given.features[f] # "absent" THEN gate.given.features[f] = "true"
    ELSE IF gate.given.defaults[f] # "absent" THEN gate.given.defaults[f] = "true"
    ELSE FALSE

\* Init left the defaults map and the caller's map as they were.
MapsUntouched ==
    /\ gate.heap.defaults = gate.given.defaults
    /\ gate.heap.features = gate.given.features

\* C19: after one or more Init calls, IsEnabled(f) returns the value f has in
\* the map of the most recent Init if f is in it, otherwise the default of f
\* if it has one, otherwise false (so no override of an earlier Init is left),
\* and Init has changed neither the defaults map nor the map passed in.
C19_LastInitThenDefault ==
    /\ (gate.inits > 0 /\ gate.read # NoRead) =>
          gate.read.out = ExpectedEnabled(gate.read.feature)
    /\ MapsUntouched

\* After a second Init, whose map switches off a feature that is on by
\* default, IsEnabled has returned false for it.
C19_Witness ==
    /\ gate.inits = 2
    /\ gate.read.feature = "feat1"
    /\ gate.given.defaults["feat1"] = "true"
    /\ gate.given.features["feat1"] = "false"
    /\ gate.given.features["feat2"] = "absent"
    /\ ~gate.read.out

(***************************************************************************)
(* The feature gate under concurrent callers.  Every call is a thread that *)
(* takes the steps of its function one at a time: the lock operations, the *)
(* clone, the copy of one key, the assignment, the read of one key.  The    *)
(* lock is a sync.RWMutex: its writer and the set of its readers.           *)
(***************************************************************************)

IsEnabledThreads == {"r1"}

StringThreads == {"s1"}

InitThreads == {"w1", "w2"}

GateThreads == IsEnabledThreads \cup StringThreads \cup InitThreads

\* The maps the Init callers pass: one override, and two overrides.
InitArguments ==
    { [f \in Features |-> IF f = "feat1" THEN "false" ELSE "absent"],
      [f \in Features |-> IF f = "feat1" THEN "absent" ELSE "true"] }

\* A thread outside every call.
IdleThread ==
    [pc |-> "idle", feature |-> "none", features |-> EmptyMap,
     local |-> EmptyMap, copied |-> {}, seen |-> {}, out |-> EmptyMap]

\* The keys of a map.
Keys(mp) == {f \in Features : mp[f] # "absent"}

\* A faulty RLock that does not wait for the writer.
CanRLockAlways(g) == TRUE

\* sync.RWMutex.RLock returns when no writer holds the lock.
CanRLock(g) == g.lock.writer = "none"

\* sync.RWMutex.Lock returns when no writer and no reader holds the lock.
CanLock(g) == g.lock.writer = "none" /\ g.lock.readers = {}

RLocked(g, t) == [g EXCEPT !.lock.readers = @ \cup {t}]

RUnlocked(g, t) == [g EXCEPT !.lock.readers = @ \ {t}]

InitLock ==
    /\ statusIfaces = <<>>
    /\ specIfaces = <<>>
    /\ specBridges = NilBridges
    /\ pass = NoPass
    /\ call = NoCall
    /\ threads = [t \in GateThreads |-> IdleThread]
    /\ \E d \in GateDefaults : gate = NewGate(d)

\* IsEnabled(feature): fg.lock.RLock().
IsEnabledRLock(t) ==
    /\ threads[t].pc = "idle"
    /\ CanRLock(gate)
    /\ \E f \in Features :
          threads' = [threads EXCEPT ![t] = [IdleThread EXCEPT !.pc = "rlocked",
                                                               !.feature = f]]
    /\ gate' = RLocked(gate, t)

\* IsEnabled: the value of fg.state[feature] that it returns.
IsEnabledRead(t) ==
    /\ threads[t].pc = "rlocked"
    /\ threads' = [threads EXCEPT ![t].pc = "read",
                                  ![t].out = [f \in Features |->
                                      IF f = threads[t].feature
                                      THEN (IF IsEnabled(gate, f) THEN "true" ELSE "false")
                                      ELSE "absent"]]
    /\ UNCHANGED gate

\* IsEnabled: the deferred fg.lock.RUnlock().
IsEnabledRUnlock(t) ==
    /\ threads[t].pc = "read"
    /\ threads' = [threads EXCEPT ![t].pc = "idle"]
    /\ gate' = RUnlocked(gate, t)

\* String(): fg.lock.RLock().
StringRLock(t) ==
    /\ threads[t].pc = "idle"
    /\ CanRLock(gate)
    /\ threads' = [threads EXCEPT ![t] = [IdleThread EXCEPT !.pc = "ranging"]]
    /\ gate' = RLocked(gate, t)

\* String: one turn of the loop over fg.state, the keys in any order.
StringKey(t) ==
    /\ threads[t].pc = "ranging"
    /\ \E k \in Keys(gate.heap[gate.stateRef]) \ threads[t].seen :
          threads' = [threads EXCEPT ![t].seen = @ \cup {k},
                                     ![t].out = [@ EXCEPT ![k] = gate.heap[gate.stateRef][k]]]
    /\ UNCHANGED gate

\* String: the loop is over, the deferred fg.lock.RUnlock().
StringRUnlock(t) ==
    /\ threads[t].pc = "ranging"
    /\ Keys(gate.heap[gate.stateRef]) \subseteq threads[t].seen
    /\ threads' = [threads EXCEPT ![t].pc = "idle"]
    /\ gate' = RUnlocked(gate, t)

\* Init(features) is called and waits in fg.lock.Lock().
InitWait(t) ==
    /\ threads[t].pc = "idle"
    /\ \E a \in InitArguments :
          threads' = [threads EXCEPT ![t] = [IdleThread EXCEPT !.pc = "waiting",
                                                               !.features = a]]
    /\ UNCHANGED gate

\* Init: fg.lock.Lock() returns.
InitLocked(t) ==
    /\ threads[t].pc = "waiting"
    /\ CanLock(gate)
    /\ threads' = [threads EXCEPT ![t].pc = "locked"]
    /\ gate' = [gate EXCEPT !.lock.writer = t]

\* Init: state := maps.Clone(fg.defaultFeatures), empty for nil.
InitClone(t) ==
    /\ threads[t].pc = "locked"
    /\ threads' = [threads EXCEPT ![t].pc = "copying",
                                  ![t].local = CloneDefaults(gate).content]
    /\ UNCHANGED gate

\* Init: maps.Copy(state, features) sets one key, the keys in any order.
InitCopyKey(t) ==
    /\ threads[t].pc = "copying"
    /\ \E k \in Keys(threads[t].features) \ threads[t].copied :
          threads' = [threads EXCEPT ![t].copied = @ \cup {k},
                                     ![t].local = [@ EXCEPT ![k] = threads[t].features[k]]]
    /\ UNCHANGED gate

\* Init: fg.state = state once every key is copied.
InitAssign(t) ==
    /\ threads[t].pc = "copying"
    /\ Keys(threads[t].features) \subseteq threads[t].copied
    /\ threads' = [threads EXCEPT ![t].pc = "assigned"]
    /\ gate' = [gate EXCEPT !.heap.state = threads[t].local, !.stateRef = "state"]

\* Init: the deferred fg.lock.Unlock().
InitUnlock(t) ==
    /\ threads[t].pc = "assigned"
    /\ threads' = [threads EXCEPT ![t].pc = "idle"]
    /\ gate' = [gate EXCEPT !.lock.writer = "none"]

GateStep ==
    \/ \E t \in IsEnabledThreads : IsEnabledRLock(t)
    \/ \E t \in IsEnabledThreads : IsEnabledRead(t)
    \/ \E t \in IsEnabledThreads : IsEnabledRUnlock(t)
    \/ \E t \in StringThreads : StringRLock(t)
    \/ \E t \in StringThreads : StringKey(t)
    \/ \E t \in StringThreads : StringRUnlock(t)
    \/ \E t \in InitThreads : InitWait(t)
    \/ \E t \in InitThreads : InitLocked(t)
    \/ \E t \in InitThreads : InitClone(t)
    \/ \E t \in InitThreads : InitCopyKey(t)
    \/ \E t \in InitThreads : InitAssign(t)
    \/ \E t \in InitThreads : InitUnlock(t)

NextLock ==
    /\ GateStep
    /\ UNCHANGED << statusIfaces, specIfaces, specBridges, pass, call >>

SpecLock == InitLock /\ [][NextLock]_vars

\* The threads between RLock and RUnlock.
InReadSection == {t \in GateThreads : threads[t].pc \in {"rlocked", "read", "ranging"}}

\* The threads between Lock and Unlock.
InWriteSection ==
    {t \in GateThreads : threads[t].pc \in {"locked", "copying", "assigned"}}

\* The complete states of the gate: the empty map it is made with, and the
\* defaults overridden by the whole map of one Init call.
CompleteStates ==
    {EmptyMap} \cup {MapsCopy(CloneDefaults(gate).content, a) : a \in InitArguments}

\* What String has read comes from the map mp: the keys it has seen, with
\* the values of mp.
ReadOf(t, mp) ==
    \A f \in Features :
        threads[t].out[f] # "absent" => threads[t].out[f] = mp[f]

\* What IsEnabled has returned is what the map mp gives for its feature.
ReturnedOf(t, mp) ==
    \A f \in Features :
        threads[t].out[f] # "absent" => (threads[t].out[f] = "true") = (mp[f] = "true")

\* C20: no reader is between RLock and RUnlock while an Init is between Lock
\* and Unlock (and no two Init are), the map a reader reads is a complete
\* state, and all that an IsEnabled or String call has read, finished or not,
\* comes from one complete state.
C20_ReadersSeeCompleteStates ==
    /\ InWriteSection # {} => InReadSection = {}
    /\ Cardinality(InWriteSection) <= 1
    /\ InReadSection # {} => gate.heap[gate.stateRef] \in CompleteStates
    /\ \A t \in StringThreads : \E mp \in CompleteStates : ReadOf(t, mp)
    /\ \A t \in IsEnabledThreads : \E mp \in CompleteStates : ReturnedOf(t, mp)

\* String is in the middle of its loop over a state that an Init with two
\* overrides has left, IsEnabled has read a key of the same state, and an
\* Init waits for the lock.
C20_Witness ==
    /\ threads["s1"].pc = "ranging"
    /\ Cardinality(threads["s1"].seen) = 1
    /\ threads["r1"].pc = "read"
    /\ threads["w1"].pc = "waiting"
    /\ gate.defaultsNil = FALSE
    /\ gate.heap[gate.stateRef]["feat3"] = "true"
    /\ gate.heap[gate.stateRef]["feat1"] = "true"

(***************************************************************************)
(* Calls of Apply on a node with one observed interface and no desired     *)
(* interface: the VF group it creates.                                     *)
(***************************************************************************)

\* The entries of the name selectors: a name, a name with a range, a name
\* with '#' and nothing after it, and a range that does not parse.
PfNameEntries ==
    { Eth0,
      Eth0 \o << "#", "1", "-", "2" >>,
      Eth0 \o << "#", "2", "-", "3" >>,
      Eth0 \o << "#" >>,
      Eth1,
      Eth1 \o << "#", "0", "-", "1" >>,
      Eth1 \o << "#", "x", "-", "1" >> }

\* The name selectors: no entry, one entry, two entries.
PfNameLists ==
    { <<>> } \cup { << a >> : a \in PfNameEntries }
             \cup { << a, b >> : a \in PfNameEntries, b \in PfNameEntries }

GroupPolicies ==
    { Policy(prof, 99, [NoSelector EXCEPT !.Vendor = vendor, !.PfNames = names],
             numVfs, 1500, "", "", FALSE, NoBridge) :
        prof \in {ProfileA, ProfileB}, vendor \in {"", "15b3"},
        names \in PfNameLists, numVfs \in {MaxVfs - 1, MaxVfs} }

InitGroup ==
    /\ statusIfaces = <<>>
    /\ specIfaces = <<>>
    /\ specBridges = NilBridges
    /\ gate = NoGate
    /\ threads = NoThreads
    /\ pass = NoPass
    /\ \E p \in GroupPolicies, iface \in {If0, If1, If2} :
          call = [fn |-> "Apply", p |-> p, iface |-> iface, done |-> FALSE,
                  out |-> [ifaces |-> <<>>, err |-> "nil"]]

\* p.Apply(state, false) on the state with the one observed interface.
GroupCall ==
    /\ call.fn = "Apply"
    /\ ~call.done
    /\ call' = [call EXCEPT !.done = TRUE,
                            !.out = Apply(call.p, << call.iface >>, <<>>, FALSE)]
    /\ UNCHANGED << statusIfaces, specIfaces, specBridges, pass, gate, threads >>

NextGroup == GroupCall

SpecGroup == InitGroup /\ [][NextGroup]_vars

\* The part of a selector entry before its first '#', the whole entry if it
\* has none.
BeforeHash(e) ==
    IF \E i \in 1..Len(e) : e[i] = "#"
    THEN SubSeq(e, 1, (CHOOSE i \in 1..Len(e) :
                           e[i] = "#" /\ \A j \in 1..(i - 1) : e[j] # "#") - 1)
    ELSE e

\* The part of a selector entry after its first '#', empty if it has none.
AfterHash(e) == SubSeq(e, Len(BeforeHash(e)) + 2, Len(e))

\* The entries of the list names whose device name is name.
Naming(names, name) == {k \in 1..Len(names) : BeforeHash(names[k]) = name}

\* The range "start-end" written after '#' in the entry e, as Apply writes a
\* range.
ExplicitRange(e) ==
    Itoa(DigitsVal(Split(AfterHash(e), "-")[1])) \o << "-" >>
    \o Itoa(DigitsVal(Split(AfterHash(e), "-")[2]))

\* The range 0..NumVfs-1 of the policy p.
DefaultRange(p) == << "0", "-" >> \o Itoa(p.NumVfs - 1)

\* The range of the first entry of names that names the interface: its
\* explicit range if it has one, the default range if it has none or if no
\* entry names the interface.
NamedRange(p, names, name) ==
    IF Naming(names, name) = {} THEN DefaultRange(p)
    ELSE IF AfterHash(names[CHOOSE k \in Naming(names, name) :
                                \A j \in Naming(names, name) : k <= j]) = <<>>
         THEN DefaultRange(p)
    ELSE ExplicitRange(names[CHOOSE k \in Naming(names, name) :
                                 \A j \in Naming(names, name) : k <= j])

\* The group g carries what the policy p says.
CarriesPolicy(g, p) ==
    /\ g.ResourceName = p.ResourceName
    /\ g.DeviceType = p.DeviceType
    /\ g.Mtu = p.Mtu
    /\ g.IsRdma = p.IsRdma
    /\ g.VdpaType = p.VdpaType
    /\ g.PolicyName = p.Name

\* C21: the group Apply creates for a matched interface has the range of the
\* first selector entry whose device name (the part before '#') is the
\* interface name, the default range 0..NumVfs-1 if the entry has no range or
\* no entry names the interface; Apply returns no error when no entry names
\* the matched interface; the group carries the policy's resource name,
\* device type, MTU, RDMA flag, VDPA type and policy name.
C21_Original ==
    call.fn = "Apply" /\ call.done =>
        /\ call.out.ifaces # <<>> =>
              /\ call.out.ifaces[1].VfGroups[1].VfRange =
                     NamedRange(call.p, call.p.NicSelector.PfNames, call.iface.Name)
              /\ CarriesPolicy(call.out.ifaces[1].VfGroups[1], call.p)
        /\ (Selected(call.p.NicSelector, call.iface)
            /\ call.p.NicSelector # NoSelector
            /\ Naming(call.p.NicSelector.PfNames, call.iface.Name) = {}) =>
              call.out.err = "nil" /\ call.out.ifaces # <<>>

(***************************************************************************)
(* Calls of isVFRangeOverlapping on two well-formed ranges.                *)
(***************************************************************************)

\* The largest VF index of the ranges.
MaxIndex == 11

\* The bounds of the well-formed ranges: start <= end.
WellFormedBounds == {b \in (0..MaxIndex) \X (0..MaxIndex) : b[1] <= b[2]}

\* first and second are the bounds the two range strings are written from.
InitRanges ==
    /\ statusIfaces = <<>>
    /\ specIfaces = <<>>
    /\ specBridges = NilBridges
    /\ gate = NoGate
    /\ threads = NoThreads
    /\ pass = NoPass
    /\ \E b1 \in WellFormedBounds, b2 \in WellFormedBounds :
          call = [fn |-> "isVFRangeOverlapping",
                  gr |-> MergeGroup("resA", RangeStr(b1[1], b1[2])),
                  group |-> MergeGroup("resB", RangeStr(b2[1], b2[2])),
                  first |-> b1,
                  second |-> b2,
                  done |-> FALSE,
                  out |-> "false"]

SpecRanges == InitRanges /\ [][NextOverlap]_vars

\* The inclusive intervals b1 and b2 share an index.
ShareIndex(b1, b2) ==
    \E i \in 0..MaxIndex : b1[1] <= i /\ i <= b1[2] /\ b2[1] <= i /\ i <= b2[2]

\* C22: for two well-formed ranges isVFRangeOverlapping returns true exactly
\* when the two inclusive intervals share an index, and the call with the
\* arguments swapped returns the same.
C22_OverlapIsIntersection ==
    call.fn = "isVFRangeOverlapping" /\ call.done =>
        /\ call.out = IF ShareIndex(call.first, call.second) THEN "true" ELSE "false"
        /\ OverlapOutcome(call.group.VfRange, call.gr.VfRange) = call.out

\* The call returned true for a first range that lies strictly inside the
\* second, with two-digit bounds.
C22_Witness ==
    /\ call.fn = "isVFRangeOverlapping"
    /\ call.done
    /\ call.out = "true"
    /\ call.second[1] < call.first[1]
    /\ call.first[2] < call.second[2]
    /\ call.first[1] >= 10

(***************************************************************************)
(* Calls of NeedToUpdateSriov with several desired VF groups, the PF as    *)
(* desired.                                                                *)
(***************************************************************************)

\* The desired groups of the calls: kernel or user-space driver, on the VFs
\* 0-1, 0-3 or 2-3.
ScanGroups ==
    { [DriftGroup(dt, FALSE) EXCEPT !.VfRange = RangeStr(b[1], b[2])] :
        dt \in {"netdevice", "vfio-pci"},
        b \in { << 0, 1 >>, << 0, 3 >>, << 2, 3 >> } }

\* The desired group lists: one group, or two groups in an order.
ScanGroupLists ==
    { << g >> : g \in ScanGroups } \cup { << g, h >> : g \in ScanGroups, h \in ScanGroups }

\* The observed VFs: inside the first, the second or no range, with the
\* kernel driver, a user-space driver or none.
ScanVfs ==
    { VfStatus(id, driver, 1500, "11:22:33:44", "") :
        id \in {0, 2, 5}, driver \in {"mlx5_core", "vfio-pci", ""} }

ScanVfLists ==
    { << v >> : v \in ScanVfs }
    \cup { << VfStatus(0, "mlx5_core", 1500, "11:22:33:44", ""), v >> : v \in ScanVfs }

InitScan ==
    /\ statusIfaces = <<>>
    /\ specIfaces = <<>>
    /\ specBridges = NilBridges
    /\ gate = NoGate
    /\ threads = NoThreads
    /\ pass = NoPass
    /\ \E n \in {0, MaxVfs}, groups \in ScanGroupLists, vfs \in ScanVfLists :
          call = [fn |-> "NeedToUpdateSriov",
                  ifaceSpec |->
                      [PciAddress |-> Pci0, Name |-> Eth0, Mtu |-> 1500,
                       LinkType |-> "", EswitchMode |-> "", NumVfs |-> n,
                       ExternallyManaged |-> FALSE,
                       VfGroups |-> groups],
                  ifaceStatus |->
                      [PciAddress |-> Pci0, Name |-> Eth0, Mtu |-> 1500,
                       LinkType |-> "ETH", EswitchMode |-> "legacy", NumVfs |-> n,
                       LinkAdminState |-> "up", VFs |-> vfs],
                  done |-> FALSE,
                  out |-> FALSE]

SpecScan == InitScan /\ [][NextDrift]_vars

\* The group g of the desired interface is the first, in list order, whose
\* range holds the index of the observed VF.
FirstHolding(ifaceSpec, vf, g) ==
    /\ IndexInRange(vf.VfID, ifaceSpec.VfGroups[g].VfRange)
    /\ \A h \in 1..(g - 1) : ~IndexInRange(vf.VfID, ifaceSpec.VfGroups[h].VfRange)

\* C23: with the PF as desired, NeedToUpdateSriov returns true exactly when
\* VFs are desired and some observed VF is not as the first group holding its
\* index wants it: a later group holding the index, and a VF that no group
\* holds, do not change the result, and with a desired VF count of 0 the
\* result is false whatever the VFs are.
C23_FirstGroupDecides ==
    DriftDone =>
        call.out =
            (/\ call.ifaceSpec.NumVfs > 0
             /\ \E v \in DOMAIN call.ifaceStatus.VFs,
                   g \in DOMAIN call.ifaceSpec.VfGroups :
                   /\ FirstHolding(call.ifaceSpec, call.ifaceStatus.VFs[v], g)
                   /\ ~VfAsDesired(call.ifaceSpec, call.ifaceStatus,
                                   call.ifaceStatus.VFs[v], call.ifaceSpec.VfGroups[g]))

\* The call returned false for a VF that is as its first group wants it
\* while a later group holding its index wants another driver, next to a VF
\* without driver that no group holds.
C23_Witness ==
    /\ DriftDone
    /\ call.ifaceSpec.NumVfs > 0
    /\ Len(call.ifaceSpec.VfGroups) = 2
    /\ Len(call.ifaceStatus.VFs) = 2
    /\ call.ifaceStatus.VFs[2].VfID = 5
    /\ call.ifaceStatus.VFs[2].Driver = ""
    /\ FirstHolding(call.ifaceSpec, call.ifaceStatus.VFs[1], 1)
    /\ IndexInRange(call.ifaceStatus.VFs[1].VfID, call.ifaceSpec.VfGroups[2].VfRange)
    /\ ~VfAsDesired(call.ifaceSpec, call.ifaceStatus,
                    call.ifaceStatus.VFs[1], call.ifaceSpec.VfGroups[2])
    /\ ~call.out

(***************************************************************************)
(* NeedToUpdateSriov on a port that agrees with the desired interface.     *)
(***************************************************************************)

\* The eswitch mode with an empty one read as legacy.
ModeOrLegacy(mode) == IF mode = "" THEN "legacy" ELSE mode

\* The observed VF vf agrees with the desired group g: a driver that is the
\* group's device type (for the generic or an unset device type, one that is
\* not a DPDK driver), the group's MTU or an MTU of 0 on either side, a GUID
\* that was read, and the group's VDPA type.
VfAgrees(vf, g) ==
    /\ vf.Driver # ""
    /\ IF g.DeviceType \in {"", "netdevice"}
       THEN vf.Driver \notin {"igb_uio", "vfio-pci", "uio_pci_generic"}
       ELSE vf.Driver = g.DeviceType
    /\ (vf.Mtu = g.Mtu \/ vf.Mtu = 0 \/ g.Mtu = 0)
    /\ vf.GUID # "0000:0000:0000:0000"
    /\ vf.VdpaType = g.VdpaType

\* The observed port agrees with the desired interface on every axis.
AllAxesAgree(ifaceSpec, ifaceStatus) ==
    /\ (ifaceSpec.Mtu = 0 \/ ifaceSpec.Mtu <= ifaceStatus.Mtu)
    /\ ModeOrLegacy(ifaceSpec.EswitchMode) = ModeOrLegacy(ifaceStatus.EswitchMode)
    /\ ifaceSpec.NumVfs = ifaceStatus.NumVfs
    /\ ifaceStatus.LinkAdminState # "down"
    /\ \A v \in DOMAIN ifaceStatus.VFs, g \in DOMAIN ifaceSpec.VfGroups :
          IndexInRange(ifaceStatus.VFs[v].VfID, ifaceSpec.VfGroups[g].VfRange)
          => VfAgrees(ifaceStatus.VFs[v], ifaceSpec.VfGroups[g])

\* C24: for a desired interface that is not externally managed,
\* NeedToUpdateSriov returns false when the observed port agrees with it on
\* the PF MTU, the eswitch mode (empty read as legacy on both sides), the VF
\* count, the link admin state, and the driver, MTU, GUID and VDPA type of
\* every observed VF in the range of a group.
C24_AgreementNeedsNoUpdate ==
    (/\ DriftDone
     /\ ~call.ifaceSpec.ExternallyManaged
     /\ AllAxesAgree(call.ifaceSpec, call.ifaceStatus)) => ~call.out

\* The call returned false for an unset desired mode on a port in legacy
\* mode, a desired MTU below the observed one, and an observed VF of the
\* group bound to the group's user-space driver.
C24_Witness ==
    /\ DriftDone
    /\ ~call.ifaceSpec.ExternallyManaged
    /\ call.ifaceSpec.EswitchMode = ""
    /\ call.ifaceStatus.EswitchMode = "legacy"
    /\ call.ifaceSpec.Mtu = 1500
    /\ call.ifaceStatus.Mtu = 9000
    /\ call.ifaceSpec.NumVfs = 2
    /\ call.ifaceStatus.VFs # <<>>
    /\ call.ifaceStatus.VFs[1].VfID = 0
    /\ call.ifaceStatus.VFs[1].Driver = "vfio-pci"
    /\ AllAxesAgree(call.ifaceSpec, call.ifaceStatus)
    /\ ~call.out

(***************************************************************************)
(* Apply calls, from an empty desired list, of policies whose VF range     *)
(* lies within their VF count.                                             *)
(***************************************************************************)

\* The selector and the VF count of the policies: the first port's VFs 0-1
\* of 2, 1-2 of 3 and 2-3 of 4, the default range of the first port named
\* alone, and of every port by vendor.
WithinChoices ==
    { << Named(<< Eth0 \o << "#", "0", "-", "1" >> >>), 2 >>,
      << Named(<< Eth0 \o << "#", "1", "-", "2" >> >>), 3 >>,
      << Named(<< Eth0 \o << "#", "2", "-", "3" >> >>), MaxVfs >>,
      << Named(<< Eth0 >>), 3 >>,
      << ByVendor, 2 >>,
      << ByVendor, MaxVfs >> }

\* A third kind of policy, with a resource of its own.
ProfileC == [ProfileA EXCEPT !.Name = P3, !.ResourceName = "resC"]

WithinPolicies ==
    { Policy(prof, 99, c[1], c[2], 1500, "", "", FALSE, NoBridge) :
        prof \in {ProfileA, ProfileB, ProfileC}, c \in WithinChoices }

InitWithin ==
    /\ statusIfaces = NodeStatus
    /\ specIfaces = <<>>
    /\ specBridges = NilBridges
    /\ gate = NoGate
    /\ threads = NoThreads
    /\ pass = NoPass
    /\ call = NoCall

\* p.Apply(state, equalPriority) for any of the policies and any flag.
WithinCall ==
    \E p \in WithinPolicies, eq \in BOOLEAN :
        /\ specIfaces' = ApplyResult(p, eq).ifaces
        /\ UNCHANGED << statusIfaces, specBridges, pass, call, gate, threads >>

NextWithin == WithinCall

SpecWithin == InitWithin /\ [][NextWithin]_vars

\* The range r lies within the VFs 0..numVfs-1.
RangeWithin(r, numVfs) ==
    /\ ~parseRange(r).err
    /\ 0 <= parseRange(r).rngSt
    /\ parseRange(r).rngSt <= parseRange(r).rngEnd
    /\ parseRange(r).rngEnd <= numVfs - 1

\* C25: after any sequence of Apply calls from the empty desired list, of
\* policies with NumVfs > 0 and a range within 0..NumVfs-1, with any
\* equalPriority flags, the range of every VF group of every desired
\* interface lies within 0..NumVfs-1 of that interface.
C25_GroupsWithinVfCount ==
    \A i \in DOMAIN specIfaces : \A g \in DOMAIN specIfaces[i].VfGroups :
        RangeWithin(specIfaces[i].VfGroups[g].VfRange, specIfaces[i].NumVfs)

\* The first port holds the group 0-1, which only policies of 2 VFs make,
\* before the group 2-3 carried forward from a policy of more VFs.
C25_Witness ==
    \E i \in DOMAIN specIfaces :
        /\ Len(specIfaces[i].VfGroups) = 2
        /\ specIfaces[i].VfGroups[1].VfRange = RangeStr(0, 1)
        /\ specIfaces[i].VfGroups[2].VfRange = RangeStr(2, 3)
        /\ specIfaces[i].NumVfs = MaxVfs

(***************************************************************************)
(* The same Apply call made twice in a row.                                *)
(***************************************************************************)

\* What the second p.Apply(state, equalPriority) leaves after the first call
\* left first.
AppliedTwice(p, eq, first) == Apply(p, statusIfaces, first.ifaces, eq).ifaces

\* No desired interface of the list holds two groups of one resource name.
OneGroupPerResource(ifaces) ==
    \A i \in DOMAIN ifaces :
        \A g \in DOMAIN ifaces[i].VfGroups, h \in DOMAIN ifaces[i].VfGroups :
            ifaces[i].VfGroups[g].ResourceName = ifaces[i].VfGroups[h].ResourceName
            => g = h

\* Whether the second call changes nothing that the first call, which
\* returned first, left.
SecondChangesNothing(p, eq, first) ==
    first.err # "panic" =>
        /\ AppliedTwice(p, eq, first) = first.ifaces
        /\ OneGroupPerResource(first.ifaces)

\* C26: in every node state, for every policy with NumVfs > 0 and either
\* equalPriority flag, a second Apply call right after the first leaves the
\* desired interface list as the first call left it, and no desired interface
\* holds two groups of one resource name.
C26_ApplyTwiceIsApplyOnce ==
    /\ OneGroupPerResource(specIfaces)
    /\ \A p \in VfPolicies, eq \in BOOLEAN :
          p.NumVfs > 0 => SecondChangesNothing(p, eq, ApplyResult(p, eq))

\* Whether the first call, which returned first, changed the list, left a
\* port with a group carried forward, and the second call changed nothing.
FirstChangesSecondNot(p, eq, first) ==
    /\ first.err = "nil"
    /\ first.ifaces # specIfaces
    /\ \E i \in DOMAIN first.ifaces : Len(first.ifaces[i].VfGroups) = 2
    /\ AppliedTwice(p, eq, first) = first.ifaces

\* A node state with desired interfaces in which a call with the flag set
\* changes the list and carries a group forward, and the same call made again
\* changes nothing.
C26_Witness ==
    /\ specIfaces # <<>>
    /\ \E p \in VfPolicies :
          p.NumVfs > 0 /\ FirstChangesSecondNot(p, TRUE, ApplyResult(p, TRUE))

====
